---- MODULE Spec2Model ----
(***************************************************************************)
(* Model of the chargeback dashboard generator (generate_dashboard.py).    *)
(*                                                                         *)
(* The state is the position of main in its pipeline, the rows the query   *)
(* returns, the data frame process_data works on, the two metrics bundles  *)
(* it computes and the rows and filter values of the cases table.  The     *)
(* aggregation _aggregate_dashboard_metrics is the operator Aggregate,     *)
(* built from one operator per block of the code.                          *)
(*                                                                         *)
(* Representation:                                                         *)
(*   - a text value (operator, bank, type, country) is a sequence of       *)
(*     one-character strings, or NULL;                                     *)
(*   - a status is a string, or None;                                      *)
(*   - a timestamp is a record [year, month, day], or NaT;                 *)
(*   - a month period is its pandas ordinal (months since 1970-01), its    *)
(*     label the pair <<year, month>>;                                     *)
(*   - sort_ties is the order in which the sort of the build leaves equal  *)
(*     counts: pandas sorts by count with an unstable sort, so that order  *)
(*     is fixed for a run but not specified;                               *)
(*   - a table row is the record of its cells, a formatted date the tuple  *)
(*     of its numbers in the order of the format, or <<"-">>;              *)
(*   - an amount is an integer; a rate is kept in tenths of a percent      *)
(*     (100.0 is 1000), rounded half-to-even as round(x, 1) does.          *)
(***************************************************************************)
EXTENDS Integers, Sequences, FiniteSets, TLC

VARIABLES pc, db, df, all_metrics, fought_df, fought_metrics,
          casos_rows, casos_filters, now, sort_ties,
          html, out_file, git_log, error,
          loaded, allRows, currentRows, currentPage, shown, filters, sortable

\* what main leaves outside of process_data: the page, the output file, the
\* git commands run and the exception that ended the run
io_vars == <<html, out_file, git_log, error>>

\* the state of the table script of the page, once loaded in a browser
script_vars == <<loaded, allRows, currentRows, currentPage, shown, filters, sortable>>

vars == <<pc, db, df, all_metrics, fought_df, fought_metrics,
          casos_rows, casos_filters, now, sort_ties, io_vars, script_vars>>

(***************************************************************************)
(* Null values                                                             *)
(***************************************************************************)
\* parseFloat of an empty input
NaN == -1

NULL == <<"NULL">>

None == "None"

NaT == [year |-> 0, month |-> 0, day |-> 0]

NaTPeriod == -1

(***************************************************************************)
(* Generic helpers                                                         *)
(***************************************************************************)
RECURSIVE SumSeq(_)
SumSeq(s) ==
    IF s = <<>> THEN 0
    ELSE IF Len(s) = 1 THEN s[1]
    ELSE LET h == Len(s) \div 2
         IN  SumSeq(SubSeq(s, 1, h)) + SumSeq(SubSeq(s, h + 1, Len(s)))

Range(s) == {s[i] : i \in DOMAIN s}

\* df.loc[mask, "amount"].sum(); df.loc[mask] and df[mask] are SelectSeq
AmountSum(rows) == SumSeq([i \in DOMAIN rows |-> rows[i].amount])

\* sorted(...) of a set of integers
RECURSIVE SortedInts(_)
SortedInts(S) ==
    IF S = {} THEN <<>>
    ELSE LET m == CHOOSE x \in S : \A y \in S : x <= y
         IN  <<m>> \o SortedInts(S \ {m})

(***************************************************************************)
(* Text: str.lower(), str.upper(), the `in` substring test                 *)
(***************************************************************************)
UpperAlphabet ==
    <<"A","B","C","D","E","F","G","H","I","J","K","L","M",
      "N","O","P","Q","R","S","T","U","V","W","X","Y","Z">>

LowerAlphabet ==
    <<"a","b","c","d","e","f","g","h","i","j","k","l","m",
      "n","o","p","q","r","s","t","u","v","w","x","y","z">>

LowerChar(c) ==
    IF \E i \in DOMAIN UpperAlphabet : UpperAlphabet[i] = c
    THEN LowerAlphabet[CHOOSE i \in DOMAIN UpperAlphabet : UpperAlphabet[i] = c]
    ELSE c

UpperChar(c) ==
    IF \E i \in DOMAIN LowerAlphabet : LowerAlphabet[i] = c
    THEN UpperAlphabet[CHOOSE i \in DOMAIN LowerAlphabet : LowerAlphabet[i] = c]
    ELSE c

Lower(t) == [i \in DOMAIN t |-> LowerChar(t[i])]

Upper(t) == [i \in DOMAIN t |-> UpperChar(t[i])]

\* pat in t
Contains(t, pat) ==
    \E i \in 1..(Len(t) - Len(pat) + 1) : SubSeq(t, i, i + Len(pat) - 1) = pat

\* the characters of the model in code point order
CharOrder ==
    <<" ", "(", ")", "-", "/", "0","1","2","3","4","5","6","7","8","9">>
    \o UpperAlphabet \o LowerAlphabet

Ord(c) == CHOOSE i \in DOMAIN CharOrder : CharOrder[i] = c

\* a < b for two strings
TextLess(a, b) ==
    \E k \in 1..(Len(a) + 1) :
        /\ k <= Len(b)
        /\ \A j \in 1..(k - 1) : a[j] = b[j]
        /\ (k > Len(a) \/ Ord(a[k]) < Ord(b[k]))

\* sorted(...) of a set of strings
RECURSIVE SortedTexts(_)
SortedTexts(S) ==
    IF S = {} THEN <<>>
    ELSE LET m == CHOOSE x \in S : \A y \in S \ {x} : TextLess(x, y)
         IN  <<m>> \o SortedTexts(S \ {m})

\* mutant: the null value left in place
FillNaKeepsNull(t, value) == t

\* Series.fillna(value)
FillNa(t, value) == IF t = NULL THEN value ELSE t

(***************************************************************************)
(* Status configuration                                                    *)
(***************************************************************************)
\* STATUS_ORDER[:-1], the six statuses the aggregation enumerates
STATUS_ORDER ==
    <<"Won", "Accepted", "Documents submitted", "Active",
      "N/A (fought)", "N/A (non-fought)">>

StatusKeys == Range(STATUS_ORDER)

\* STATUS_CONFIG[s]["label"]
StatusLabel(s) ==
    CASE s = "Won" -> "Ganado"
      [] s = "Accepted" -> "Perdido"
      [] s = "Documents submitted" -> "Docs Enviados"
      [] s = "Active" -> "Activo"
      [] s = "N/A (fought)" -> "N/A (Peleado)"
      [] s = "N/A (non-fought)" -> "N/A (No Peleado)"
      [] OTHER -> "N/A"

\* STATUS_CONFIG[s]["color"]
StatusColor(s) ==
    CASE s = "Won" -> "#4CAF50"
      [] s = "Accepted" -> "#FF9800"
      [] s = "Documents submitted" -> "#2196F3"
      [] s = "Active" -> "#9C27B0"
      [] s = "N/A (fought)" -> "#FFC107"
      [] s = "N/A (non-fought)" -> "#9E9E9E"
      [] OTHER -> "#607D8B"

(***************************************************************************)
(* Dates                                                                   *)
(***************************************************************************)
\* pd.to_datetime(col).dt.to_period("M"): the month ordinal of a timestamp
ToPeriod(d) ==
    IF d = NaT THEN NaTPeriod ELSE (d.year - 1970) * 12 + (d.month - 1)

\* str(m) of a month period, "YYYY-MM", as the pair <<year, month>>
PeriodLabel(p) == <<1970 + (p \div 12), (p % 12) + 1>>

(***************************************************************************)
(* process_data: the classifier (normalise, status split, dashboard date)  *)
(***************************************************************************)
\* mutant: the "N/A (non-fought)" assignment left out
DashboardStatusWithoutNonFought(r) ==
    IF r.status = None /\ r.is_fought = 1 THEN "N/A (fought)" ELSE r.status

\* mutant: the two synthetic statuses exchanged
DashboardStatusSwapped(r) ==
    IF r.status = None /\ r.is_fought = 1 THEN "N/A (non-fought)"
    ELSE IF r.status = None /\ r.is_fought = 0 THEN "N/A (fought)"
    ELSE r.status

DashboardStatus(r) ==
    IF r.status = None /\ r.is_fought = 1 THEN "N/A (fought)"
    ELSE IF r.status = None /\ r.is_fought = 0 THEN "N/A (non-fought)"
    ELSE r.status

DashboardDate(r) ==
    IF r.submission_date # NaT THEN r.submission_date ELSE r.payment_date

ClassifyRow(r) ==
    [dashboard_status |-> DashboardStatus(r),
     dashboard_date   |-> DashboardDate(r),
     month            |-> ToPeriod(DashboardDate(r))] @@ r

Classify(rows) == [i \in DOMAIN rows |-> ClassifyRow(rows[i])]

(***************************************************************************)
(* _aggregate_dashboard_metrics: scalar totals and status summary          *)
(***************************************************************************)
\* mutant: the digits after the first decimal cut off instead of rounded
RoundDown(num, den) == num \div den

\* the integer nearest to num / den, ties to the even one (den > 0, num >= 0)
RoundHalfEven(num, den) ==
    LET q == num \div den
        r == num % den
    IN  IF 2 * r < den THEN q
        ELSE IF 2 * r > den THEN q + 1
        ELSE IF q % 2 = 0 THEN q ELSE q + 1

\* mutant: the share of the lost records instead of the won ones
SuccessRateOfLost(won, lost) ==
    IF won + lost # 0 THEN RoundHalfEven(lost * 1000, won + lost) ELSE 0

\* round(won / (won + lost) * 100, 1) if (won + lost) else 0, in tenths
SuccessRate(won, lost) ==
    IF won + lost # 0 THEN RoundHalfEven(won * 1000, won + lost) ELSE 0

won_mask(r) == r.status = "Won"

\* mutant: the lost records looked up under their display name
LostMaskWrongStatus(r) == r.status = "Lost"

lost_mask(r) == r.status = "Accepted"

fought_mask(r) == r.is_fought = 1

\* mutant: the won-only rankings computed from all records
WonRowsUnfiltered(rows) == rows

\* df[df["status"] == "Won"]
WonRows(rows) == SelectSeq(rows, won_mask)

\* mutant: the status mask restricted to the fought records
StatusMaskFoughtOnly(rows, s) ==
    SelectSeq(rows, LAMBDA r : r.dashboard_status = s /\ r.is_fought = 1)

\* mask = df["dashboard_status"] == s
StatusMask(rows, s) == SelectSeq(rows, LAMBDA r : r.dashboard_status = s)

StatusSummary(rows) ==
    [s \in StatusKeys |->
        [count  |-> Len(StatusMask(rows, s)),
         amount |-> AmountSum(StatusMask(rows, s))]]

(***************************************************************************)
(* _get_time_series(date_col)                                              *)
(***************************************************************************)
\* mutant: the dropna left out
DropNaMonthKeepsAll(rows, date_col) == rows

\* df_temp after dropna(subset=["temp_month"])
DropNaMonth(rows, date_col) ==
    SelectSeq(rows, LAMBDA r : ToPeriod(r[date_col]) # NaTPeriod)

\* mutant: the months from the latest to the earliest
MonthsSortedDescending(df_temp, date_col) ==
    LET asc == SortedInts({ToPeriod(r[date_col]) : r \in Range(df_temp)})
    IN  [i \in DOMAIN asc |-> asc[Len(asc) + 1 - i]]

MonthsSorted(df_temp, date_col) ==
    SortedInts({ToPeriod(r[date_col]) : r \in Range(df_temp)})

MonthStatusMask(df_temp, date_col, m, s) ==
    SelectSeq(df_temp, LAMBDA r : ToPeriod(r[date_col]) = m /\ r.dashboard_status = s)

\* by_status[s] and count_by_status[s]: one entry per month of months_sorted
AmountRow(df_temp, date_col, months_sorted, s) ==
    [i \in DOMAIN months_sorted |->
        AmountSum(MonthStatusMask(df_temp, date_col, months_sorted[i], s))]

\* mutant: a sparse row, the months without a record of the status left out
CountRowSparse(df_temp, date_col, months_sorted, s) ==
    SelectSeq([i \in DOMAIN months_sorted |->
                  Len(MonthStatusMask(df_temp, date_col, months_sorted[i], s))],
              LAMBDA n : n # 0)

CountRow(df_temp, date_col, months_sorted, s) ==
    [i \in DOMAIN months_sorted |->
        Len(MonthStatusMask(df_temp, date_col, months_sorted[i], s))]

MonthSuccess(df_temp, date_col, m) ==
    LET lost_m == Len(SelectSeq(df_temp,
                      LAMBDA r : ToPeriod(r[date_col]) = m /\ r.status = "Accepted"))
        won_m  == Len(SelectSeq(df_temp,
                      LAMBDA r : ToPeriod(r[date_col]) = m /\ r.status = "Won"))
    IN  SuccessRate(won_m, lost_m)

GetTimeSeries(rows, date_col) ==
    LET df_temp       == DropNaMonth(rows, date_col)
        months_sorted == MonthsSorted(df_temp, date_col)
    IN  [month_labels    |-> [i \in DOMAIN months_sorted |->
                                 PeriodLabel(months_sorted[i])],
         by_status       |-> [s \in StatusKeys |->
                                 AmountRow(df_temp, date_col, months_sorted, s)],
         count_by_status |-> [s \in StatusKeys |->
                                 CountRow(df_temp, date_col, months_sorted, s)],
         success         |-> [i \in DOMAIN months_sorted |->
                                 MonthSuccess(df_temp, date_col, months_sorted[i])]]

(***************************************************************************)
(* Sorting by count: sort_values("count", ascending=False), value_counts() *)
(***************************************************************************)
RemoveAt(s, k) == SubSeq(s, 1, k - 1) \o SubSeq(s, k + 1, Len(s))

\* The entries (records with a count field) by non-increasing count.  Among
\* equal counts the default sort of pandas is not stable: the entries come in
\* their order in the input, or not, as sort_ties says.
RECURSIVE SortByCountDesc(_)
SortByCountDesc(entries) ==
    IF entries = <<>> THEN <<>>
    ELSE LET top == {i \in DOMAIN entries :
                        \A j \in DOMAIN entries : entries[i].count >= entries[j].count}
             k   == IF sort_ties = "first"
                    THEN CHOOSE i \in top : \A j \in top : i <= j
                    ELSE CHOOSE i \in top : \A j \in top : i >= j
         IN  <<entries[k]>> \o SortByCountDesc(RemoveAt(entries, k))

\* DataFrame.head(n) / Series.head(n)
HeadN(s, n) == SubSeq(s, 1, IF Len(s) < n THEN Len(s) ELSE n)

\* Series.iloc[n:]
ILocFrom(s, n) == SubSeq(s, n + 1, Len(s))

\* Series.unique(): the distinct values in the order of their first occurrence
Unique(values) ==
    LET first == {i \in DOMAIN values : \A j \in 1..(i - 1) : values[j] # values[i]}
        order == SortedInts(first)
    IN  [k \in DOMAIN order |-> values[order[k]]]

\* Series.value_counts(): one entry per distinct value, by non-increasing count
ValueCounts(values) ==
    LET u == Unique(values)
    IN  SortByCountDesc([k \in DOMAIN u |->
            [name  |-> u[k],
             count |-> Cardinality({i \in DOMAIN values : values[i] = u[k]})]])

(***************************************************************************)
(* Rankings: groupby(key).agg(count, total).sort_values(count).head(10)    *)
(***************************************************************************)
TopN == 10

\* groupby(key) drops the rows whose key is null
GroupKeys(rows, key) == {r[key] : r \in Range(rows)} \ {NULL}

\* one entry per group, the groups in the order of their keys
GroupAgg(rows, key) ==
    LET keys == SortedTexts(GroupKeys(rows, key))
    IN  [k \in DOMAIN keys |->
            [name  |-> keys[k],
             count |-> Len(SelectSeq(rows, LAMBDA r : r[key] = keys[k])),
             total |-> AmountSum(SelectSeq(rows, LAMBDA r : r[key] = keys[k]))]]

\* mutant: the head(10) left out
TopRankingUncut(rows, key) == SortByCountDesc(GroupAgg(rows, key))

\* mutant: sorted by increasing count
TopRankingAscending(rows, key) ==
    LET desc == SortByCountDesc(GroupAgg(rows, key))
    IN  HeadN([i \in DOMAIN desc |-> desc[Len(desc) + 1 - i]], TopN)

TopRanking(rows, key) == HeadN(SortByCountDesc(GroupAgg(rows, key)), TopN)

(***************************************************************************)
(* Card types donut                                                        *)
(***************************************************************************)
map_cc_type(t) ==
    IF Contains(t, <<"v","i","s","a">>) THEN "VISA"
    ELSE IF Contains(t, <<"m","a","s","t","e","r","c","a","r","d">>)
            \/ Contains(t, <<"m","a","s","t","e","r">>) THEN "MasterCard"
    ELSE IF Contains(t, <<"a","m","e","x">>)
            \/ Contains(t, <<"a","m","e","r","i","c","a","n">>) THEN "AMEX"
    ELSE "Otro"

\* mutant: the str.lower() left out
TypesRawCaseSensitive(rows) ==
    [i \in DOMAIN rows |->
        FillNa(rows[i].type, <<"d","e","s","c","o","n","o","c","i","d","o">>)]

\* types_raw = df["type"].fillna("desconocido").str.lower()
TypesRaw(rows) ==
    [i \in DOMAIN rows |->
        Lower(FillNa(rows[i].type, <<"d","e","s","c","o","n","o","c","i","d","o">>))]

MappedTypes(rows) == [i \in DOMAIN rows |-> map_cc_type(TypesRaw(rows)[i])]

TypeCounts(rows) == ValueCounts(MappedTypes(rows))

cc_colors(l) ==
    CASE l = "VISA" -> "#1A1F71"
      [] l = "MasterCard" -> "#EB001B"
      [] l = "AMEX" -> "#002663"
      [] OTHER -> "#9E9E9E"

(***************************************************************************)
(* Countries donut                                                         *)
(***************************************************************************)
TopCountries == 4

OTRO == <<"O","T","R","O">>

\* country_raw = df["country"].fillna("Desconocido").str.upper()
CountryRaw(rows) ==
    [i \in DOMAIN rows |->
        Upper(FillNa(rows[i].country, <<"D","e","s","c","o","n","o","c","i","d","o">>))]

\* series[label] = value: overwrites the entry of that label, appends otherwise
SetItem(series, label, value) ==
    IF \E i \in DOMAIN series : series[i].name = label
    THEN [i \in DOMAIN series |->
            IF series[i].name = label
            THEN [name |-> label, count |-> value] ELSE series[i]]
    ELSE Append(series, [name |-> label, count |-> value])

CountryCounts(rows) ==
    LET country_counts == ValueCounts(CountryRaw(rows))
    IN  IF Len(country_counts) > TopCountries
        THEN LET top_countries == HeadN(country_counts, TopCountries)
                 rest          == ILocFrom(country_counts, TopCountries)
                 otro_count    == SumSeq([i \in DOMAIN rest |-> rest[i].count])
             IN  SetItem(top_countries, OTRO, otro_count)
        ELSE country_counts

palette == <<"#009FDD", "#9C27B0", "#4CAF50", "#FF9800", "#607D8B", "#E57373">>

(***************************************************************************)
(* _aggregate_dashboard_metrics: the bundle                                *)
(***************************************************************************)
Aggregate(rows) ==
    LET won_count      == Len(SelectSeq(rows, won_mask))
        lost_count     == Len(SelectSeq(rows, lost_mask))
        status_summary == StatusSummary(rows)
        payment        == GetTimeSeries(rows, "payment_date")
        cb             == GetTimeSeries(rows, "chargeback_received_date")
        type_counts    == TypeCounts(rows)
        country_counts == CountryCounts(rows)
    IN  [total_records    |-> Len(rows),
         total_amount     |-> AmountSum(rows),
         fought_amount    |-> AmountSum(SelectSeq(rows, fought_mask)),
         recovered_amount |-> AmountSum(SelectSeq(rows, won_mask)),
         lost_amount      |-> AmountSum(SelectSeq(rows, lost_mask)),
         fought_count     |-> Len(SelectSeq(rows, fought_mask)),
         lost_count       |-> lost_count,
         won_count        |-> won_count,
         success_rate     |-> SuccessRate(won_count, lost_count),
         status_summary   |-> status_summary,
         month_labels_payment            |-> payment.month_labels,
         monthly_by_status_payment       |-> payment.by_status,
         monthly_count_by_status_payment |-> payment.count_by_status,
         monthly_success_payment         |-> payment.success,
         month_labels_cb                 |-> cb.month_labels,
         monthly_by_status_cb            |-> cb.by_status,
         monthly_count_by_status_cb      |-> cb.count_by_status,
         monthly_success_cb              |-> cb.success,
         top_operators     |-> TopRanking(rows, "operator"),
         top_operators_won |-> TopRanking(WonRows(rows), "operator"),
         top_banks_total   |-> TopRanking(rows, "bank"),
         top_banks_won     |-> TopRanking(WonRows(rows), "bank"),
         status_donut_labels |-> [i \in DOMAIN STATUS_ORDER |->
                                     StatusLabel(STATUS_ORDER[i])],
         status_donut_values |-> [i \in DOMAIN STATUS_ORDER |->
                                     status_summary[STATUS_ORDER[i]].count],
         status_donut_colors |-> [i \in DOMAIN STATUS_ORDER |->
                                     StatusColor(STATUS_ORDER[i])],
         type_donut_labels |-> [i \in DOMAIN type_counts |-> type_counts[i].name],
         type_donut_values |-> [i \in DOMAIN type_counts |-> type_counts[i].count],
         type_donut_colors |-> [i \in DOMAIN type_counts |->
                                   cc_colors(type_counts[i].name)],
         country_donut_labels |-> [i \in DOMAIN country_counts |->
                                      country_counts[i].name],
         country_donut_values |-> [i \in DOMAIN country_counts |->
                                      country_counts[i].count],
         country_donut_colors |-> HeadN(palette, Len(country_counts))]

(***************************************************************************)
(* process_data: the rows of the cases table and the filter values         *)
(***************************************************************************)
\* the status a display row carries for a record without raw status
NA == "N/A"

\* str(x).strip() is empty
Blank(t) == \A i \in DOMAIN t : t[i] = " "

\* str.capitalize(): the first character upper-cased, the others lower-cased
Capitalize(t) ==
    [i \in DOMAIN t |-> IF i = 1 THEN UpperChar(t[i]) ELSE LowerChar(t[i])]

\* df_display: the text columns filled with '', the status with 'N/A'
DisplayRow(r) ==
    [r EXCEPT !.operator    = FillNa(@, <<>>),
              !.credit_card = FillNa(@, <<>>),
              !.type        = FillNa(@, <<>>),
              !.bank        = FillNa(@, <<>>),
              !.country     = FillNa(@, <<>>),
              !.status      = IF @ = None THEN NA ELSE @]

\* strftime('%d/%m/%Y'), or '-' for a null timestamp
FormatDate(d) == IF d = NaT THEN <<"-">> ELSE <<d.day, d.month, d.year>>

\* strftime('%d/%m/%Y %H:%M'), or '-'; the timestamps of the model are at 00:00
FormatDateTime(d) == IF d = NaT THEN <<"-">> ELSE <<d.day, d.month, d.year, 0, 0>>

\* the text of the status badge: the label of a configured status, the
\* status itself otherwise
Badge(status_text) ==
    IF status_text \in Range(STATUS_ORDER) \cup {None}
    THEN StatusLabel(status_text)
    ELSE status_text

\* days from 1970-01-01 to the date d of the proleptic Gregorian calendar
DaysFromCivil(d) ==
    LET y   == IF d.month <= 2 THEN d.year - 1 ELSE d.year
        era == y \div 400
        yoe == y - era * 400
        mp  == IF d.month > 2 THEN d.month - 3 ELSE d.month + 9
        doy == (153 * mp + 2) \div 5 + d.day - 1
        doe == yoe * 365 + yoe \div 4 - yoe \div 100 + doy
    IN  era * 146097 + doe - 719468

\* Timestamp.timestamp(): the seconds since the epoch; the timestamps of the
\* model are at 00:00
Timestamp(d) == DaysFromCivil(d) * 86400

\* the data-sort attribute of a date cell
DataSort(d) == IF d = NaT THEN 0 ELSE Timestamp(d)

\* the cells of one <tr> of the table, from a row of df_display
HtmlRow(row) ==
    [user_id      |-> row.user_id,
     amount       |-> row.amount,
     operator     |-> row.operator,
     credit_card  |-> IF Len(row.credit_card) >= 4 THEN row.credit_card ELSE <<>>,
     type         |-> IF row.type # <<>> THEN Capitalize(row.type) ELSE <<"-">>,
     bank         |-> row.bank,
     payment_date |-> FormatDateTime(row.payment_date),
     cb_date      |-> FormatDate(row.chargeback_received_date),
     is_fought    |-> IF row.is_fought # 0 THEN "Sí" ELSE "No",
     badge        |-> Badge(row.status),
     sub_date     |-> FormatDate(row.submission_date),
     res_date     |-> FormatDate(row.result_date),
     payment_sort |-> DataSort(row.payment_date),
     sub_sort     |-> DataSort(row.submission_date),
     res_sort     |-> DataSort(row.result_date)]

\* mutant: the rows of the fought records only
CasosRowsOfFought(rows) ==
    LET fought == SelectSeq(rows, fought_mask)
    IN  [i \in DOMAIN fought |-> HtmlRow(DisplayRow(fought[i]))]

\* casos_rows: one row per record of df, appended in the order of iterrows();
\* "".join keeps that order
CasosRows(rows) ==
    IF rows = <<>> THEN <<>>
    ELSE [i \in DOMAIN rows |-> HtmlRow(DisplayRow(rows[i]))]

\* the characters of a status
StatusText(s) ==
    CASE s = "Won" -> <<"W","o","n">>
      [] s = "Accepted" -> <<"A","c","c","e","p","t","e","d">>
      [] s = "Documents submitted" ->
            <<"D","o","c","u","m","e","n","t","s"," ",
              "s","u","b","m","i","t","t","e","d">>
      [] s = "Active" -> <<"A","c","t","i","v","e">>
      [] s = NA -> <<"N","/","A">>

\* mutant: the blank values kept
FilterValuesWithBlanks(rows, col) == Unique([i \in DOMAIN rows |-> rows[i][col]])

\* [str(x) for x in df_display[col].dropna().unique() if str(x).strip()]
FilterValues(rows, col) ==
    SelectSeq(Unique([i \in DOMAIN rows |-> rows[i][col]]), LAMBDA t : ~Blank(t))

NoFilters == [operators |-> <<>>, types |-> <<>>, banks |-> <<>>, statuses |-> <<>>]

\* casos_filters
CasosFilters(rows) ==
    IF rows = <<>> THEN NoFilters
    ELSE LET df_display == [i \in DOMAIN rows |-> DisplayRow(rows[i])]
             ops  == FilterValues(df_display, "operator")
             typs == LET raw == FilterValues(df_display, "type")
                     IN  [i \in DOMAIN raw |-> Capitalize(raw[i])]
             bnks == FilterValues(df_display, "bank")
             stss == {df_display[i].status : i \in DOMAIN df_display}
         IN  [operators |-> SortedTexts(Range(ops)),
              types     |-> SortedTexts(Range(typs)),
              banks     |-> SortedTexts(Range(bnks)),
              statuses  |-> SortedTexts({StatusText(x) : x \in stss})]

(***************************************************************************)
(* Input frames: the rows the query of fetch_data can return               *)
(***************************************************************************)
MaxRows == 3

MaxSeriesRows == 2

NumOps == 11

MaxExtra == 1

MaxPerCountry == 2

MaxTypeRows == 2

MaxTick == 1

MaxRate == 3

MaxTableRows == 3

MaxMainRows == 1

MaxScriptRows == 2

MaxPages == 3

Date(y, m, d) == [year |-> y, month |-> m, day |-> d]

Text1(i) == <<LowerAlphabet[i]>>

\* one row of the query's thirteen columns
BaseRow ==
    [user_id     |-> 1,
     amount      |-> 100,
     operator    |-> Text1(1),
     credit_card |-> <<"4","1","1","1","1","1","1","2","3","4">>,
     type        |-> <<"V","i","s","a">>,
     bank        |-> Text1(1),
     country     |-> <<"M","X">>,
     payment_date             |-> Date(2024, 1, 15),
     chargeback_received_date |-> Date(2024, 2, 3),
     is_fought   |-> 1,
     status      |-> "Won",
     submission_date |-> NaT,
     result_date     |-> NaT]

\* the i-th row of a frame carries user i and the amount 100 * i
Numbered(rows) ==
    [i \in DOMAIN rows |-> [rows[i] EXCEPT !.user_id = i, !.amount = 100 * i]]

SeqsUpTo(S, n) == UNION {[1..k -> S] : k \in 0..n}

RECURSIVE Repeat(_, _)
Repeat(r, n) == IF n = 0 THEN <<>> ELSE <<r>> \o Repeat(r, n - 1)

RawStatuses == {"Won", "Accepted", "Documents submitted", "Active", None}

\* frames whose rows differ in raw status and is_fought
StatusRows ==
    {[BaseRow EXCEPT !.status = s, !.is_fought = f] :
        s \in RawStatuses, f \in {0, 1}}

StatusFrames == {Numbered(rows) : rows \in SeqsUpTo(StatusRows, MaxRows)}

\* frames whose rows differ in status and in the two dates of the time series
SeriesRows ==
    {[BaseRow EXCEPT !.status = s, !.payment_date = p,
                     !.chargeback_received_date = c] :
        s \in {"Won", "Accepted", None},
        p \in {NaT, Date(2023, 12, 31), Date(2024, 1, 1)},
        c \in {NaT, Date(2024, 1, 20)}}
    \cup
    {[BaseRow EXCEPT !.status = s, !.payment_date = Date(2024, 1, 1),
                     !.chargeback_received_date = Date(2024, 3, 5)] :
        s \in {"Won", "Accepted", None}}

SeriesFrames == {Numbered(rows) : rows \in SeqsUpTo(SeriesRows, MaxSeriesRows)}

\* frames of w Won and l Accepted records of one month, and one record without
\* raw status
RateFrames ==
    {Numbered(Repeat(BaseRow, w)
              \o Repeat([BaseRow EXCEPT !.status = "Accepted"], l)
              \o <<[BaseRow EXCEPT !.status = None]>>) :
        w \in 0..MaxRate, l \in 0..MaxRate}

\* frames with k operators and banks of one row each, the first w of them
\* Won, followed by up to MaxExtra further rows; k is small or near NumOps
RankBase(k, w) ==
    [i \in 1..k |->
        [BaseRow EXCEPT !.operator = Text1(i), !.bank = Text1(k + 1 - i),
                        !.status = IF i <= w THEN "Won" ELSE "Accepted"]]

RankExtraRows ==
    {[BaseRow EXCEPT !.operator = o, !.bank = b, !.status = s] :
        o \in {NULL, Text1(1)},
        b \in {NULL, Text1(2)},
        s \in {"Won", "Accepted"}}

RankFrames ==
    {Numbered(RankBase(k, w) \o extra) :
        k \in (0..2) \cup ((NumOps - 2)..NumOps), w \in {0, 1, NumOps},
        extra \in SeqsUpTo(RankExtraRows, MaxExtra)}

\* frames given by the number of rows of each country value
CountryList ==
    <<<<"M","X">>, <<"m","x">>, <<"A","R">>, <<"B","R">>,
      <<"o","t","r","o">>, NULL>>

\* cnt[i] rows of the country list[i], for each i from the i given
RECURSIVE CountryRowsFrom(_, _, _)
CountryRowsFrom(list, cnt, i) ==
    IF i > Len(list) THEN <<>>
    ELSE Repeat([BaseRow EXCEPT !.country = list[i]], cnt[i])
         \o CountryRowsFrom(list, cnt, i + 1)

CountryFrames ==
    {Numbered(CountryRowsFrom(CountryList, cnt, 1)) :
        cnt \in {c \in [DOMAIN CountryList -> 0..MaxPerCountry] : c[2] <= 1}}

\* six countries with 10, 8, 6, 4, 2 and 1 rows
CountryScenario ==
    Numbered(CountryRowsFrom(
        <<<<"M","X">>, <<"A","R">>, <<"B","R">>, <<"C","L">>, <<"C","O">>, <<"P","E">>>>,
        <<10, 8, 6, 4, 2, 1>>, 1))

\* frames whose rows differ in card type
TypeList ==
    {<<"V","i","s","a">>,
     <<"M","A","S","T","E","R","C","A","R","D">>,
     <<"M","a","s","t","e","r">>,
     <<"a","m","e","x"," ","d","e","b","i","t">>,
     <<"A","m","e","r","i","c","a","n">>,
     <<"d","i","s","c","o","v","e","r">>,
     <<"a","m","e","x"," ","v","i","s","a">>,
     <<>>,
     NULL}

TypeRows == {[BaseRow EXCEPT !.type = t] : t \in TypeList}

TypeFrames == {Numbered(rows) : rows \in SeqsUpTo(TypeRows, MaxTypeRows)}

\* card types "Visa", "MASTERCARD", "amex debit", "discover", null
TypeScenario ==
    Numbered(<<[BaseRow EXCEPT !.type = <<"V","i","s","a">>],
               [BaseRow EXCEPT !.type = <<"M","A","S","T","E","R","C","A","R","D">>],
               [BaseRow EXCEPT !.type = <<"a","m","e","x"," ","d","e","b","i","t">>],
               [BaseRow EXCEPT !.type = <<"d","i","s","c","o","v","e","r">>],
               [BaseRow EXCEPT !.type = NULL]>>)

\* frames of rows that differ in every column the aggregation reads
MixedRows ==
    {BaseRow,
     [BaseRow EXCEPT !.status = "Accepted", !.operator = Text1(2),
                     !.payment_date = NaT, !.country = NULL,
                     !.type = <<"a","m","e","x">>],
     [BaseRow EXCEPT !.status = None, !.bank = NULL,
                     !.chargeback_received_date = NaT,
                     !.submission_date = Date(2024, 3, 1), !.type = NULL],
     [BaseRow EXCEPT !.status = None, !.is_fought = 0, !.operator = NULL,
                     !.payment_date = Date(2023, 11, 30),
                     !.country = <<"a","r">>],
     [BaseRow EXCEPT !.status = "Active", !.bank = Text1(3),
                     !.payment_date = NaT, !.chargeback_received_date = NaT,
                     !.country = <<"o","t","r","o">>]}

\* frames for the cases table: operators, card types, banks and statuses that
\* are null, blank, in different cases or out of order
TableRows ==
    {BaseRow,
     [BaseRow EXCEPT !.operator = NULL, !.type = NULL, !.bank = NULL,
                     !.status = None, !.is_fought = 0, !.payment_date = NaT],
     [BaseRow EXCEPT !.operator = <<" ">>, !.type = <<"V","I","S","A">>,
                     !.bank = Text1(2), !.status = "Accepted"],
     [BaseRow EXCEPT !.operator = Text1(2), !.type = <<"v","i","s","a">>,
                     !.status = "Active", !.credit_card = <<"4","1">>],
     [BaseRow EXCEPT !.operator = <<"B">>, !.type = <<"a","m","e","x">>,
                     !.bank = <<"a","b">>, !.status = "Documents submitted",
                     !.submission_date = Date(2024, 3, 1)],
     [BaseRow EXCEPT !.operator = <<"a","b">>, !.type = <<" ">>,
                     !.bank = <<>>, !.is_fought = 0]}

TableFrames == {Numbered(rows) : rows \in SeqsUpTo(TableRows, MaxTableRows)}

\* const rowsPerPage = 50
rowsPerPage == 50

\* frames for the table script: short frames of records that differ in status,
\* is_fought, amount order and payment date, and one frame that fills
\* MaxPages pages of the table and one row of the next
ScriptRows ==
    {BaseRow,
     [BaseRow EXCEPT !.status = "Accepted", !.is_fought = 0,
                     !.payment_date = Date(2023, 12, 31)],
     [BaseRow EXCEPT !.status = None, !.payment_date = NaT]}

LongRow(i) ==
    [BaseRow EXCEPT !.user_id = i,
                    !.amount = 100 * (1 + (i % 3)),
                    !.status = IF i % 3 = 0 THEN None ELSE "Won",
                    !.is_fought = i % 2,
                    !.payment_date = IF i % 4 = 0 THEN NaT
                                     ELSE IF i % 4 = 3 THEN Date(2023, 12, 31)
                                     ELSE Date(2024, 1, 15)]

LongFrame == [i \in 1..(rowsPerPage * MaxPages + 1) |-> LongRow(i)]

ScriptFrames ==
    {Numbered(rows) : rows \in SeqsUpTo(ScriptRows, MaxScriptRows)} \cup {LongFrame}

\* frames for the runs of main as a whole
MainFrames == {Numbered(rows) : rows \in SeqsUpTo(MixedRows, MaxMainRows)}

MixedFrames == {Numbered(rows) : rows \in SeqsUpTo(MixedRows, MaxRows)}

(***************************************************************************)
(* main and process_data                                                   *)
(***************************************************************************)
NoMetrics == "none"

\* no exception
NoError == "none"

\* the filter controls as the page is delivered: every value empty
NoInput ==
    [status |-> <<>>, fought |-> "", operator |-> <<>>, type |-> <<>>,
     bank |-> <<>>, amount_min |-> NaN, amount_max |-> NaN,
     dpStart |-> NaT, dpEnd |-> NaT, dcbStart |-> NaT, dcbEnd |-> NaT,
     dsubStart |-> NaT, dsubEnd |-> NaT, dresStart |-> NaT, dresEnd |-> NaT]

\* no header carries the class asc or desc
NoSort == [col |-> 0, dir |-> "none"]

\* the orders in which a sort may leave entries of equal count
TieOrders == {"first", "last"}

\* The frames of Init and InitSeries have one operator, one bank, one card
\* type and one country: no two entries are of equal count there, and the tie
\* order makes no difference.
InitWith(frames, ties) ==
    /\ pc = "fetch"
    /\ db \in frames
    /\ df = <<>>
    /\ all_metrics = NoMetrics
    /\ fought_df = <<>>
    /\ fought_metrics = NoMetrics
    /\ casos_rows = <<>>
    /\ casos_filters = NoFilters
    /\ now = 0
    /\ sort_ties \in ties
    /\ html = <<>>
    /\ out_file = <<>>
    /\ git_log = <<>>
    /\ error = NoError
    /\ loaded = FALSE
    /\ allRows = <<>>
    /\ currentRows = <<>>
    /\ currentPage = 1
    /\ shown = <<>>
    /\ filters = NoInput
    /\ sortable = NoSort

\* df = fetch_data()
Fetch ==
    /\ pc = "fetch"
    /\ df' = db
    /\ pc' = "classify"
    /\ UNCHANGED <<db, all_metrics, fought_df, fought_metrics, casos_rows, casos_filters,
                 now, sort_ties,
                 io_vars, script_vars>>

\* process_data: normalise, dashboard_status, dashboard_date, month
ClassifyStep ==
    /\ pc = "classify"
    /\ df' = Classify(df)
    /\ pc' = "aggregate_all"
    /\ UNCHANGED <<db, all_metrics, fought_df, fought_metrics, casos_rows, casos_filters,
                 now, sort_ties,
                 io_vars, script_vars>>

\* mutant: _get_time_series drops the rows without a payment date from df
\* itself instead of from a copy
AggregateAllInPlace ==
    /\ pc = "aggregate_all"
    /\ all_metrics' = Aggregate(df)
    /\ df' = DropNaMonth(df, "payment_date")
    /\ pc' = "aggregate_fought"
    /\ UNCHANGED <<db, fought_df, fought_metrics, casos_rows, casos_filters,
                 now, sort_ties,
                 io_vars, script_vars>>

\* all_metrics = _aggregate_dashboard_metrics(df)
AggregateAll ==
    /\ pc = "aggregate_all"
    /\ all_metrics' = Aggregate(df)
    /\ pc' = "aggregate_fought"
    /\ UNCHANGED <<db, df, fought_df, fought_metrics, casos_rows, casos_filters,
                 now, sort_ties,
                 io_vars, script_vars>>

\* mutant: the slice taken by raw status instead of by is_fought
FoughtSliceByStatus(rows) == SelectSeq(rows, LAMBDA r : r.status # None)

\* fought_df = df[df["is_fought"] == 1].copy()
FoughtSlice(rows) == SelectSeq(rows, fought_mask)

\* mutant: the slice of fought records replaces the record collection
AggregateFoughtInPlace ==
    /\ pc = "aggregate_fought"
    /\ fought_df' = FoughtSlice(df)
    /\ fought_metrics' = Aggregate(fought_df')
    /\ df' = fought_df'
    /\ pc' = "aggregated"
    /\ UNCHANGED <<db, all_metrics, casos_rows, casos_filters,
                 now, sort_ties,
                 io_vars, script_vars>>

\* fought_metrics = _aggregate_dashboard_metrics(fought_df)
AggregateFought ==
    /\ pc = "aggregate_fought"
    /\ fought_df' = FoughtSlice(df)
    /\ fought_metrics' = Aggregate(fought_df')
    /\ pc' = "aggregated"
    /\ UNCHANGED <<db, df, all_metrics, casos_rows, casos_filters,
                 now, sort_ties,
                 io_vars, script_vars>>

\* process_data, lines 289-365: the table rows and the filter values
FormatCasos ==
    /\ pc = "aggregated"
    /\ casos_rows' = CasosRows(df)
    /\ casos_filters' = CasosFilters(df)
    /\ pc' = "processed"
    /\ UNCHANGED <<db, df, all_metrics, fought_df, fought_metrics, now, sort_ties,
                 io_vars, script_vars>>

\* the wall clock advances at any moment of a run
Tick ==
    /\ now < MaxTick
    /\ now' = now + 1
    /\ UNCHANGED <<pc, db, df, all_metrics, fought_df, fought_metrics,
                 casos_rows, casos_filters, sort_ties,
                 io_vars, script_vars>>

Next == Fetch \/ ClassifyStep \/ AggregateAll \/ AggregateFought \/ FormatCasos

NextTimed == Next \/ Tick

(***************************************************************************)
(* main after process_data: generate_html, the output file, push_to_github *)
(***************************************************************************)
\* the exceptions of fetch_data: no connection, or the query failed
FetchErrors == {"ConnectionError", "DatabaseError"}

\* mutant: the failure is swallowed and main goes on with an empty frame
FetchFailsSwallowed ==
    /\ pc = "fetch"
    /\ \E e \in FetchErrors : error' = e
    /\ pc' = "classify"
    /\ UNCHANGED <<db, df, all_metrics, fought_df, fought_metrics,
                   casos_rows, casos_filters, now, sort_ties,
                   html, out_file, git_log, script_vars>>

\* get_db_connection returns None, and fetch_data raises ConnectionError, or
\* read_sql raises: main handles neither, the exception ends the run
FetchFails ==
    /\ pc = "fetch"
    /\ \E e \in FetchErrors : error' = e
    /\ pc' = "failed"
    /\ UNCHANGED <<db, df, all_metrics, fought_df, fought_metrics,
                   casos_rows, casos_filters, now, sort_ties,
                   html, out_file, git_log, script_vars>>

\* the dictionary process_data returns
Data ==
    [all              |-> all_metrics,
     fought           |-> fought_metrics,
     casos_table_rows |-> casos_rows,
     casos_filters    |-> casos_filters]

\* generate_html(data): the parts of the page that depend on data or on the
\* clock: the update stamp, the options of the filter controls, the body of
\* the cases table and the data of the charts
generate_html(data, t) ==
    [last_update |-> t,
     options     |-> data.casos_filters,
     tbody       |-> data.casos_table_rows,
     RAW_DATA    |-> data]

GenerateHtml ==
    /\ pc = "processed"
    /\ html' = <<generate_html(Data, now)>>
    /\ pc' = "generated"
    /\ UNCHANGED <<db, df, all_metrics, fought_df, fought_metrics,
                   casos_rows, casos_filters, now, sort_ties,
                   out_file, git_log, error, script_vars>>

\* mutant: the file is not written
WriteFileSkipped ==
    /\ pc = "generated"
    /\ pc' = "written"
    /\ UNCHANGED <<db, df, all_metrics, fought_df, fought_metrics,
                   casos_rows, casos_filters, now, sort_ties,
                   html, out_file, git_log, error, script_vars>>

\* with open(out_path, "w") as f: f.write(html)
WriteFile ==
    /\ pc = "generated"
    /\ out_file' = html
    /\ pc' = "written"
    /\ UNCHANGED <<db, df, all_metrics, fought_df, fought_metrics,
                   casos_rows, casos_filters, now, sort_ties,
                   html, git_log, error, script_vars>>

\* One subprocess.run of push_to_github: the command is logged with its
\* outcome and push_to_github goes on at the given place.  No outcome raises
\* out of push_to_github: FileNotFoundError and CalledProcessError are caught
\* and the function returns.
GitRun(at, cmd, outcome, then) ==
    /\ pc = at
    /\ git_log' = Append(git_log, [cmd |-> cmd, outcome |-> outcome])
    /\ pc' = then
    /\ UNCHANGED <<db, df, all_metrics, fought_df, fought_metrics,
                   casos_rows, casos_filters, now, sort_ties,
                   html, out_file, error, script_vars>>

\* git --version, check=True
GitVersion ==
    \/ GitRun("written", "version", "ok", "git_status")
    \/ GitRun("written", "version", "FileNotFoundError", "done")
    \/ GitRun("written", "version", "CalledProcessError", "done")

\* mutant: a failed git status ends push_to_github whatever it printed
GitStatusChecked ==
    \/ GitRun("git_status", "status", "ok", "git_add")
    \/ GitRun("git_status", "status", "not a git repository", "done")
    \/ GitRun("git_status", "status", "nonzero", "done")

\* git status, without check: push_to_github returns when stderr holds "not
\* a git repository" or "not recognized", and goes on otherwise, also when
\* the command exited non-zero with another message
GitStatus ==
    \/ GitRun("git_status", "status", "ok", "git_add")
    \/ GitRun("git_status", "status", "not a git repository", "done")
    \/ GitRun("git_status", "status", "nonzero", "git_add")

\* git add file_path, check=True
GitAdd ==
    \/ GitRun("git_add", "add", "ok", "git_commit")
    \/ GitRun("git_add", "add", "CalledProcessError", "done")

\* mutant: nothing to commit is not taken as a failure
GitCommitLenient ==
    \/ GitRun("git_commit", "commit", "ok", "git_push")
    \/ GitRun("git_commit", "commit", "nothing to commit", "git_push")
    \/ GitRun("git_commit", "commit", "CalledProcessError", "done")

\* git commit -m ..., check=True: git exits non-zero when there is nothing to
\* commit
GitCommit ==
    \/ GitRun("git_commit", "commit", "ok", "git_push")
    \/ GitRun("git_commit", "commit", "nothing to commit", "done")
    \/ GitRun("git_commit", "commit", "CalledProcessError", "done")

\* mutant: a failing push is not caught
GitPushRaises ==
    \/ GitRun("git_push", "push", "ok", "done")
    \/ /\ pc = "git_push"
       /\ git_log' = Append(git_log, [cmd |-> "push", outcome |-> "CalledProcessError"])
       /\ error' = "CalledProcessError"
       /\ pc' = "failed"
       /\ UNCHANGED <<db, df, all_metrics, fought_df, fought_metrics,
                      casos_rows, casos_filters, now, sort_ties,
                      html, out_file, script_vars>>

\* git push, check=True
GitPush ==
    \/ GitRun("git_push", "push", "ok", "done")
    \/ GitRun("git_push", "push", "CalledProcessError", "done")

push_to_github == GitVersion \/ GitStatus \/ GitAdd \/ GitCommit \/ GitPush

NextMain ==
    \/ Fetch \/ FetchFails
    \/ ClassifyStep \/ AggregateAll \/ AggregateFought \/ FormatCasos
    \/ GenerateHtml \/ WriteFile
    \/ push_to_github
    \/ Tick

(***************************************************************************)
(* The script of the cases table: filters, sorting, pagination.  A <tr> is  *)
(* known by its place in allRows; currentRows and the rows on display hold  *)
(* references to those elements.                                           *)
(***************************************************************************)
other_vars ==
    <<pc, db, df, all_metrics, fought_df, fought_metrics, casos_rows,
      casos_filters, now, sort_ties, io_vars>>

\* textContent of the status cell: the label of the badge, or N/A
BadgeText(b) ==
    CASE b = "Ganado" -> <<"G","a","n","a","d","o">>
      [] b = "Perdido" -> <<"P","e","r","d","i","d","o">>
      [] b = "Docs Enviados" ->
            <<"D","o","c","s"," ","E","n","v","i","a","d","o","s">>
      [] b = "Activo" -> <<"A","c","t","i","v","o">>
      [] b = NA -> <<"N","/","A">>

RECURSIVE Trim(_)
\* String.prototype.trim()
Trim(t) ==
    IF t = <<>> THEN t
    ELSE IF Head(t) = " " THEN Trim(Tail(t))
    ELSE IF t[Len(t)] = " " THEN Trim(SubSeq(t, 1, Len(t) - 1))
    ELSE t

\* parseDMY: the date of a cell, null for '-'
parseDMY(cell) ==
    IF cell = <<"-">> THEN NaT ELSE Date(cell[3], cell[2], cell[1])

\* the two tests of one date column: start at 00:00, end at 23:59:59.999
DateInRange(cell, start, end) ==
    LET d == parseDMY(cell)
    IN  /\ start # NaT => (d # NaT /\ DaysFromCivil(d) >= DaysFromCivil(start))
        /\ end # NaT => (d # NaT /\ DaysFromCivil(d) <= DaysFromCivil(end))

\* the callback of allRows.filter in applyFilters
RowPasses(tr, f) ==
    /\ f.amount_min # NaN => tr.amount >= f.amount_min
    /\ f.amount_max # NaN => tr.amount <= f.amount_max
    /\ Lower(f.operator) # <<>> => Lower(Trim(tr.operator)) = Lower(f.operator)
    /\ Lower(f.type) # <<>> => Lower(Trim(tr.type)) = Lower(f.type)
    /\ Lower(f.bank) # <<>> => Lower(Trim(tr.bank)) = Lower(f.bank)
    /\ f.fought # "" => tr.is_fought = f.fought
    /\ Lower(f.status) # <<>> => Lower(Trim(BadgeText(tr.badge))) = Lower(f.status)
    /\ DateInRange(tr.payment_date, f.dpStart, f.dpEnd)
    /\ DateInRange(tr.cb_date, f.dcbStart, f.dcbEnd)
    /\ DateInRange(tr.sub_date, f.dsubStart, f.dsubEnd)
    /\ DateInRange(tr.res_date, f.dresStart, f.dresEnd)

\* currentRows = allRows.filter(...): the passing rows in the order of allRows
FilterRows(trs, f) ==
    SelectSeq([i \in DOMAIN trs |-> i], LAMBDA i : RowPasses(trs[i], f))

\* Math.ceil(currentRows.length / rowsPerPage)
TotalPages(rows) == (Len(rows) + rowsPerPage - 1) \div rowsPerPage

\* the two corrections of currentPage at the head of renderTable
ClampPage(p, totalPages) ==
    LET p1 == IF p < 1 THEN 1 ELSE p
    IN  IF p1 > totalPages /\ totalPages > 0 THEN totalPages ELSE p1

\* mutant: the page of rows taken one row too far
PageRowsInclusive(rows, p) ==
    LET startIdx == (p - 1) * rowsPerPage
        endIdx   == IF startIdx + rowsPerPage + 1 < Len(rows)
                    THEN startIdx + rowsPerPage + 1 ELSE Len(rows)
    IN  SubSeq(rows, startIdx + 1, endIdx)

\* the rows renderTable puts on display: currentRows[startIdx .. endIdx)
PageRows(rows, p) ==
    LET startIdx == (p - 1) * rowsPerPage
        endIdx   == IF startIdx + rowsPerPage < Len(rows)
                    THEN startIdx + rowsPerPage ELSE Len(rows)
    IN  SubSeq(rows, startIdx + 1, endIdx)

\* renderTable() with currentRows = rows and currentPage = p
renderTable(rows, p) ==
    /\ currentPage' = ClampPage(p, TotalPages(rows))
    /\ shown' = PageRows(rows, currentPage')

\* the pages the enabled buttons of the pagination bar lead to
PageButtons(p, totalPages) ==
    LET startPage == IF p - 2 > 1 THEN p - 2 ELSE 1
        endPage   == IF p + 2 < totalPages THEN p + 2 ELSE totalPages
    IN  (IF p = 1 THEN {} ELSE {p - 1})
          \cup (IF startPage > 1 THEN {1} ELSE {})
          \cup (startPage..endPage)
          \cup (IF endPage < totalPages THEN {totalPages} ELSE {})
          \cup (IF p = totalPages \/ totalPages = 0 THEN {} ELSE {p + 1})

\* the data-col attributes of the sortable headers
SortableCols == {1, 6, 10, 11}

\* the value the comparator reads from a row: the amount of column 1, the
\* data-sort attribute of a date column
SortValue(tr, colIdx) ==
    CASE colIdx = 1 -> tr.amount
      [] colIdx = 6 -> tr.payment_sort
      [] colIdx = 10 -> tr.sub_sort
      [] colIdx = 11 -> tr.res_sort

RECURSIVE ConcatRuns(_, _, _, _)
ConcatRuns(rows, trs, colIdx, values) ==
    IF values = <<>> THEN <<>>
    ELSE SelectSeq(rows, LAMBDA i : SortValue(trs[i], colIdx) = Head(values))
           \o ConcatRuns(rows, trs, colIdx, Tail(values))

\* currentRows.sort(comparator): the sort of an array is stable, rows of equal
\* value keep the order they had
SortRows(rows, trs, colIdx, direction) ==
    LET asc == SortedInts({SortValue(trs[i], colIdx) : i \in Range(rows)})
        ord == IF direction = 1 THEN asc
               ELSE [k \in DOMAIN asc |-> asc[Len(asc) + 1 - k]]
    IN  ConcatRuns(rows, trs, colIdx, ord)

\* the page is opened: allRows and currentRows are taken from the tbody of
\* the written file, and renderTable() runs once
LoadPage ==
    /\ ~loaded
    /\ out_file # <<>>
    /\ loaded' = TRUE
    /\ allRows' = out_file[1].tbody
    /\ currentRows' = [i \in DOMAIN allRows' |-> i]
    /\ renderTable(currentRows', 1)
    /\ UNCHANGED <<filters, sortable, other_vars>>

\* the values one control of the filter bar can be changed to
FilterChanges ==
    {[filters EXCEPT !.status = v] :
        v \in {<<>>} \cup Range(out_file[1].options.statuses)}
      \cup {[filters EXCEPT !.fought = v] : v \in {"", "Sí", "No"}}
      \cup {[filters EXCEPT !.dpStart = v] : v \in {NaT, Date(2024, 1, 10)}}

\* applyFilters() with the controls at f
applyFilters(f) ==
    /\ filters' = f
    /\ currentRows' = FilterRows(allRows, f)
    /\ renderTable(currentRows', 1)
    /\ UNCHANGED <<loaded, allRows, sortable, other_vars>>

\* an input or change event of one filter control
ApplyFilters ==
    /\ loaded
    /\ \E f \in FilterChanges \ {filters} : applyFilters(f)

\* a click on the reset button
ResetFilters ==
    /\ loaded
    /\ applyFilters(NoInput)

\* mutant: the sort leaves the page where it was
SortClickKeepsPage ==
    /\ loaded
    /\ \E colIdx \in SortableCols :
        LET isAsc == sortable.col = colIdx /\ sortable.dir = "asc"
        IN  /\ sortable' = [col |-> colIdx, dir |-> IF isAsc THEN "desc" ELSE "asc"]
            /\ currentRows' = SortRows(currentRows, allRows, colIdx,
                                       IF isAsc THEN -1 ELSE 1)
            /\ renderTable(currentRows', currentPage)
    /\ UNCHANGED <<loaded, allRows, filters, other_vars>>

\* a click on a sortable header
SortClick ==
    /\ loaded
    /\ \E colIdx \in SortableCols :
        LET isAsc == sortable.col = colIdx /\ sortable.dir = "asc"
        IN  /\ sortable' = [col |-> colIdx, dir |-> IF isAsc THEN "desc" ELSE "asc"]
            /\ currentRows' = SortRows(currentRows, allRows, colIdx,
                                       IF isAsc THEN -1 ELSE 1)
            /\ renderTable(currentRows', 1)
    /\ UNCHANGED <<loaded, allRows, filters, other_vars>>

\* a click on an enabled button of the pagination bar
PageClick ==
    /\ loaded
    /\ \E p \in PageButtons(currentPage, TotalPages(currentRows)) :
        renderTable(currentRows, p)
    /\ UNCHANGED <<loaded, allRows, currentRows, filters, sortable, other_vars>>

NextScript ==
    \/ Fetch \/ ClassifyStep \/ AggregateAll \/ AggregateFought \/ FormatCasos
    \/ GenerateHtml \/ WriteFile
    \/ LoadPage \/ ApplyFilters \/ ResetFilters \/ SortClick \/ PageClick

Init == InitWith(StatusFrames, {"first"})

Spec == Init /\ [][Next]_vars

InitTable == InitWith(TableFrames, TieOrders)

InitMain == InitWith(MainFrames, TieOrders)

SpecMain == InitMain /\ [][NextMain]_vars

InitScript == InitWith(ScriptFrames, {"first"})

SpecScript == InitScript /\ [][NextScript]_vars

SpecTable == InitTable /\ [][Next]_vars

InitSeries == InitWith(SeriesFrames \cup RateFrames, {"first"})

SpecSeries == InitSeries /\ [][Next]_vars

InitRank == InitWith(RankFrames, TieOrders)

SpecRank == InitRank /\ [][Next]_vars

InitDonut ==
    InitWith(CountryFrames \cup {CountryScenario} \cup TypeFrames \cup {TypeScenario},
             TieOrders)

SpecDonut == InitDonut /\ [][Next]_vars

InitTimed == InitWith(MixedFrames, TieOrders)

SpecTimed == InitTimed /\ [][NextTimed]_vars

(***************************************************************************)
(* Properties                                                              *)
(*                                                                         *)
(* Computed is the set of bundles computed so far, each with the frame it  *)
(* was computed from.  The reference values of the properties are counted  *)
(* over the index sets of the frame, not with the masks of the code.       *)
(***************************************************************************)
Computed ==
    IF pc = "aggregate_fought" THEN {[b |-> all_metrics, rows |-> df]}
    ELSE IF pc = "aggregated"
         THEN {[b |-> all_metrics, rows |-> df],
               [b |-> fought_metrics, rows |-> fought_df]}
         ELSE {}

RECURSIVE SumOver(_, _)
SumOver(S, f) ==
    IF S = {} THEN 0
    ELSE LET x == CHOOSE y \in S : TRUE
         IN  f[x] + SumOver(S \ {x}, f)

Indices(rows, P(_)) == {i \in DOMAIN rows : P(rows[i])}

CountWhere(rows, P(_)) == Cardinality(Indices(rows, P))

AmountWhere(rows, P(_)) ==
    SumOver(Indices(rows, P), [i \in DOMAIN rows |-> rows[i].amount])

StatusCountTotal(b) ==
    SumOver(StatusKeys, [s \in StatusKeys |-> b.status_summary[s].count])

\* C1: for every non-empty record collection given to the aggregation, the
\* counts of status_summary over the six statuses add up to total_records,
\* and total_records is the number of records of the collection.
C1_StatusCountsSumToTotal ==
    \A c \in Computed :
        c.b.total_records > 0 =>
            /\ StatusCountTotal(c.b) = c.b.total_records
            /\ c.b.total_records = Len(c.rows)

\* C1 witness: three records counted in three different buckets, the two
\* synthetic ones among them.
C1_Witness ==
    /\ pc = "aggregated"
    /\ all_metrics.total_records = 3
    /\ all_metrics.status_summary["N/A (fought)"].count = 1
    /\ all_metrics.status_summary["N/A (non-fought)"].count = 1
    /\ all_metrics.status_summary["Won"].count = 1

\* C2 as stated: success_rate lies in [0, 100] and is 0 exactly when
\* won_count + lost_count = 0.
C2_RateZeroIffNoOutcome ==
    \A c \in Computed :
        /\ c.b.success_rate >= 0
        /\ c.b.success_rate <= 1000
        /\ (c.b.success_rate = 0) <=> (c.b.won_count + c.b.lost_count = 0)

\* C2 as amended: success_rate lies in [0, 100]; it is 0 whenever won_count
\* is 0, with or without lost records, and it is not 0 when won_count > 0 and
\* the unrounded rate exceeds 0.05.
C2_RateZeroWhenNothingWon ==
    \A c \in Computed :
        /\ c.b.success_rate >= 0
        /\ c.b.success_rate <= 1000
        /\ (c.b.won_count = 0 => c.b.success_rate = 0)
        /\ (c.b.won_count + c.b.lost_count = 0 => c.b.success_rate = 0)
        /\ (c.b.won_count > 0
              /\ 2000 * c.b.won_count > c.b.won_count + c.b.lost_count
                => c.b.success_rate > 0)

\* C2 witness: lost records and no won one, and the rate is 0.
C2_Witness ==
    /\ pc = "aggregated"
    /\ all_metrics.won_count = 0
    /\ all_metrics.lost_count > 0
    /\ all_metrics.success_rate = 0

\* the records of a frame with the given month label on a date basis
InMonth(rows, date_col, label) ==
    {i \in DOMAIN rows :
        rows[i][date_col] # NaT
        /\ <<rows[i][date_col].year, rows[i][date_col].month>> = label}

DenseSeries(rows, date_col, labels, by_status, count_by_status, success) ==
    /\ Len(success) = Len(labels)
    /\ \A s \in StatusKeys :
        /\ Len(by_status[s]) = Len(labels)
        /\ Len(count_by_status[s]) = Len(labels)
        /\ \A i \in DOMAIN labels :
            LET here == {j \in InMonth(rows, date_col, labels[i]) :
                            rows[j].dashboard_status = s}
            IN  /\ count_by_status[s][i] = Cardinality(here)
                /\ by_status[s][i] =
                       SumOver(here, [j \in DOMAIN rows |-> rows[j].amount])

\* C3: on both date bases and for each of the six statuses, the amount array
\* and the count array have one entry per month label, and so has the
\* success-rate array; the entry of a (status, month) pair is the count and
\* the amount of the records of that pair, 0 when there is none.
C3_DenseTimeSeries ==
    \A c \in Computed :
        /\ DenseSeries(c.rows, "payment_date",
                       c.b.month_labels_payment,
                       c.b.monthly_by_status_payment,
                       c.b.monthly_count_by_status_payment,
                       c.b.monthly_success_payment)
        /\ DenseSeries(c.rows, "chargeback_received_date",
                       c.b.month_labels_cb,
                       c.b.monthly_by_status_cb,
                       c.b.monthly_count_by_status_cb,
                       c.b.monthly_success_cb)

\* C3 witness: two payment months, Won records in the first one only and
\* Accepted records in the second one only.
C3_Witness ==
    /\ pc = "aggregated"
    /\ Len(all_metrics.month_labels_payment) = 2
    /\ all_metrics.monthly_count_by_status_payment["Won"] = <<1, 0>>
    /\ all_metrics.monthly_count_by_status_payment["Accepted"] = <<0, 1>>
    /\ all_metrics.monthly_by_status_payment["Won"][2] = 0

RankingOk(list) ==
    /\ Len(list) <= 10
    /\ \A i, j \in DOMAIN list : i < j => list[i].count >= list[j].count

\* C4: each of the four ranking lists has at most 10 entries, with counts
\* non-increasing from first to last.
C4_RankingsBoundedAndSorted ==
    \A c \in Computed :
        /\ RankingOk(c.b.top_operators)
        /\ RankingOk(c.b.top_operators_won)
        /\ RankingOk(c.b.top_banks_total)
        /\ RankingOk(c.b.top_banks_won)

\* C4 witness: more than 10 operators, more than 10 of them with a Won
\* record, and lists of 10 entries whose counts are not all equal.
C4_Witness ==
    /\ pc = "aggregated"
    /\ Cardinality({df[i].operator : i \in DOMAIN df} \ {NULL}) > 10
    /\ Cardinality({df[i].operator : i \in Indices(df, won_mask)} \ {NULL}) > 10
    /\ Len(all_metrics.top_operators) = 10
    /\ Len(all_metrics.top_operators_won) = 10
    /\ all_metrics.top_operators[1].count > all_metrics.top_operators[10].count
    /\ all_metrics.top_operators_won[1].count
         > all_metrics.top_operators_won[10].count

\* C5 as stated: the values of the country distribution add up to
\* total_records, and so do the values of the card-type distribution.
C5_DistributionsPreserveTotal ==
    \A c \in Computed :
        /\ SumSeq(c.b.country_donut_values) = c.b.total_records
        /\ SumSeq(c.b.type_donut_values) = c.b.total_records

\* the card-type half of C5, which the code keeps
C5_TypeValuesPreserveTotal ==
    \A c \in Computed : SumSeq(c.b.type_donut_values) = c.b.total_records

\* C6: the classifier gives every record its raw status when it has one,
\* else "N/A (fought)" when is_fought is true and "N/A (non-fought)" when it
\* is false; the n records without raw status and with is_fought true are
\* the count n of the "N/A (fought)" entry of status_summary.
C6_ClassifierStatus ==
    /\ pc \in {"aggregate_all", "aggregate_fought", "aggregated"} =>
          /\ Len(df) = Len(db)
          /\ \A i \in DOMAIN df :
                /\ db[i].status # None => df[i].dashboard_status = db[i].status
                /\ db[i].status = None /\ db[i].is_fought = 1
                      => df[i].dashboard_status = "N/A (fought)"
                /\ db[i].status = None /\ db[i].is_fought = 0
                      => df[i].dashboard_status = "N/A (non-fought)"
    /\ \A c \in Computed :
          c.b.status_summary["N/A (fought)"].count
              = Cardinality({i \in DOMAIN c.rows :
                                c.rows[i].status = None /\ c.rows[i].is_fought = 1})

\* C6 witness: two records without raw status and with is_fought true, and a
\* third record; the "N/A (fought)" entry has count 2 in both bundles.
C6_Witness ==
    /\ pc = "aggregated"
    /\ Len(db) = 3
    /\ Cardinality({i \in DOMAIN db :
                       db[i].status = None /\ db[i].is_fought = 1}) = 2
    /\ all_metrics.status_summary["N/A (fought)"].count = 2
    /\ fought_metrics.status_summary["N/A (fought)"].count = 2

\* the country of a record as the distribution names it
CountryOf(r) ==
    IF r.country = NULL THEN <<"D","E","S","C","O","N","O","C","I","D","O">>
    ELSE Upper(r.country)

CountriesOf(rows) == {CountryOf(rows[i]) : i \in DOMAIN rows}

CountryCount(rows, c) == Cardinality({i \in DOMAIN rows : CountryOf(rows[i]) = c})

TopFourAndRemainder(rows, labels, values) ==
    LET all  == CountriesOf(rows)
        cnt  == [c \in all |-> CountryCount(rows, c)]
    IN  /\ Len(labels) = Len(values)
        /\ IF Cardinality(all) <= 4
           THEN /\ Len(labels) = Cardinality(all)
                /\ {<<labels[i], values[i]>> : i \in DOMAIN labels}
                      = {<<c, cnt[c]>> : c \in all}
           ELSE LET kept == {labels[i] : i \in 1..4}
                IN  /\ Len(labels) = 5
                    /\ Cardinality(kept) = 4
                    /\ kept \subseteq all
                    /\ \A i \in 1..4 : values[i] = cnt[labels[i]]
                    /\ \A i \in 1..4 : \A c \in all \ kept : cnt[c] <= values[i]
                    /\ labels[5] = OTRO
                    /\ values[5] = SumOver(all \ kept, cnt)

\* C7 as stated: the country distribution counts the records per upper-cased
\* country, null under one label of its own; it keeps the 4 countries with
\* the highest counts and merges the others into one remainder entry whose
\* count is the sum of theirs.
C7_CountryTopFourAndRemainder ==
    \A c \in Computed :
        TopFourAndRemainder(c.rows, c.b.country_donut_labels,
                            c.b.country_donut_values)

\* C7 where no kept country bears the label of the remainder entry: there the
\* code does what C7 says.
C7_HoldsWithoutLabelClash ==
    \A c \in Computed :
        (Cardinality(CountriesOf(c.rows)) > 4
            => \A i \in DOMAIN c.b.country_donut_labels :
                  c.b.country_donut_labels[i] = OTRO => i = 5)
        => TopFourAndRemainder(c.rows, c.b.country_donut_labels,
                               c.b.country_donut_values)

\* the scenario of C7: counts 10, 8, 6, 4, 2, 1 give 10, 8, 6, 4 and 3
C7_ScenarioReached ==
    /\ pc = "aggregated"
    /\ all_metrics.total_records = 31
    /\ all_metrics.country_donut_values = <<10, 8, 6, 4, 3>>
    /\ all_metrics.country_donut_labels[5] = OTRO

\* t contains pat, letter case ignored
ContainsIgnoringCase(t, pat) ==
    \E i \in 1..(Len(t) - Len(pat) + 1) :
        \A j \in DOMAIN pat : LowerChar(t[i + j - 1]) = LowerChar(pat[j])

CardClass(t) ==
    IF t = NULL THEN "Otro"
    ELSE IF ContainsIgnoringCase(t, <<"v","i","s","a">>) THEN "VISA"
    ELSE IF ContainsIgnoringCase(t, <<"m","a","s","t","e","r">>) THEN "MasterCard"
    ELSE IF ContainsIgnoringCase(t, <<"a","m","e","x">>)
            \/ ContainsIgnoringCase(t, <<"a","m","e","r","i","c","a","n">>)
         THEN "AMEX"
    ELSE "Otro"

CardClasses == {"VISA", "MasterCard", "AMEX", "Otro"}

\* the value the type distribution gives a class, 0 when it does not list it
TypeValue(b, class) ==
    LET at == {i \in DOMAIN b.type_donut_labels : b.type_donut_labels[i] = class}
    IN  SumOver(at, [i \in DOMAIN b.type_donut_values |-> b.type_donut_values[i]])

\* C8: a card type is VISA if it contains "visa", else MasterCard if it
\* contains "mastercard" or "master", else AMEX if it contains "amex" or
\* "american", letter case ignored, and Otro (the "Other" class) in every
\* other case, null included; the type distribution lists each class that
\* occurs once, with the number of records of the class.
C8_TypeDistribution ==
    \A c \in Computed :
        /\ Len(c.b.type_donut_labels) = Len(c.b.type_donut_values)
        /\ \A i, j \in DOMAIN c.b.type_donut_labels :
              c.b.type_donut_labels[i] = c.b.type_donut_labels[j] => i = j
        /\ \A i \in DOMAIN c.b.type_donut_labels :
              c.b.type_donut_labels[i] \in CardClasses /\ c.b.type_donut_values[i] > 0
        /\ \A class \in CardClasses :
              TypeValue(c.b, class)
                  = Cardinality({i \in DOMAIN c.rows : CardClass(c.rows[i].type) = class})

\* C8 witness: the types Visa, MASTERCARD, "amex debit", discover and null
\* give VISA 1, MasterCard 1, AMEX 1 and Otro 2.
C8_Witness ==
    /\ pc = "aggregated"
    /\ db = TypeScenario
    /\ TypeValue(all_metrics, "VISA") = 1
    /\ TypeValue(all_metrics, "MasterCard") = 1
    /\ TypeValue(all_metrics, "AMEX") = 1
    /\ TypeValue(all_metrics, "Otro") = 2

IsWon(r) == r.status = "Won"

IsAccepted(r) == r.status = "Accepted"

IsFought(r) == r.is_fought = 1

AnyRecord(r) == TRUE

\* C9: won_count and recovered_amount are the number and the amount of the
\* records with raw status Won, lost_count and lost_amount those of the
\* records with raw status Accepted, fought_count and fought_amount those of
\* the records with is_fought true, total_records and total_amount those of
\* all records; when every record is Won, won_count = total_records,
\* lost_count = 0 and success_rate = 100.0.
C9_ScalarTotals ==
    \A c \in Computed :
        /\ c.b.won_count = CountWhere(c.rows, IsWon)
        /\ c.b.recovered_amount = AmountWhere(c.rows, IsWon)
        /\ c.b.lost_count = CountWhere(c.rows, IsAccepted)
        /\ c.b.lost_amount = AmountWhere(c.rows, IsAccepted)
        /\ c.b.fought_count = CountWhere(c.rows, IsFought)
        /\ c.b.fought_amount = AmountWhere(c.rows, IsFought)
        /\ c.b.total_records = Len(c.rows)
        /\ c.b.total_amount = AmountWhere(c.rows, AnyRecord)
        /\ (c.rows # <<>> /\ \A i \in DOMAIN c.rows : c.rows[i].status = "Won")
              => /\ c.b.won_count = c.b.total_records
                 /\ c.b.lost_count = 0
                 /\ c.b.success_rate = 1000

\* C9 witness: three Won records of 100, 200 and 300 give total_amount 600,
\* won_count 3, lost_count 0 and success_rate 100.0.
C9_Witness ==
    /\ pc = "aggregated"
    /\ [i \in DOMAIN db |-> db[i].amount] = <<100, 200, 300>>
    /\ \A i \in DOMAIN db : db[i].status = "Won"
    /\ all_metrics.total_amount = 600
    /\ all_metrics.won_count = 3
    /\ all_metrics.lost_count = 0
    /\ all_metrics.success_rate = 1000

HasRepresentativeDate(r) == r.dashboard_date # NaT

\* the records of a frame whose representative date lies in the given month
InRepresentativeMonth(rows, label) ==
    {i \in DOMAIN rows :
        HasRepresentativeDate(rows[i])
        /\ <<rows[i].dashboard_date.year, rows[i].dashboard_date.month>> = label}

BucketedByRepresentativeDate(rows, labels, count_by_status) ==
    /\ \A j \in DOMAIN rows :
        HasRepresentativeDate(rows[j]) =>
            \E i \in DOMAIN labels : j \in InRepresentativeMonth(rows, labels[i])
    /\ \A s \in StatusKeys : \A i \in DOMAIN labels :
        count_by_status[s][i] =
            Cardinality({j \in InRepresentativeMonth(rows, labels[i]) :
                            rows[j].dashboard_status = s})

\* C11 as stated: in every time series a record is counted under the
\* year-month of its representative date (submission date, or payment date
\* when there is no submission date): each (status, month) count is the
\* number of records of that status whose representative date lies in that
\* month, and every record with a representative date has its month listed.
C11_MonthOfRepresentativeDate ==
    \A c \in Computed :
        /\ BucketedByRepresentativeDate(c.rows, c.b.month_labels_payment,
                                        c.b.monthly_count_by_status_payment)
        /\ BucketedByRepresentativeDate(c.rows, c.b.month_labels_cb,
                                        c.b.monthly_count_by_status_cb)

\* the number of records counted in a time series, all months and statuses
SeriesTotal(count_by_status) ==
    SumOver(StatusKeys, [s \in StatusKeys |-> SumSeq(count_by_status[s])])

\* C12 as stated: only records with a representative date contribute to a
\* time-series row: taking the records without submission date and without
\* payment date out of the collection changes no time series, while
\* total_records counts them all.
C12_OnlyRepresentedRecordsContribute ==
    \A c \in Computed :
        LET kept    == SelectSeq(c.rows, HasRepresentativeDate)
            payment == GetTimeSeries(kept, "payment_date")
            cb      == GetTimeSeries(kept, "chargeback_received_date")
        IN  /\ c.b.month_labels_payment = payment.month_labels
            /\ c.b.monthly_count_by_status_payment = payment.count_by_status
            /\ c.b.month_labels_cb = cb.month_labels
            /\ c.b.monthly_count_by_status_cb = cb.count_by_status
            /\ c.b.total_records = Len(c.rows)

Dated(rows, date_col) == {j \in DOMAIN rows : rows[j][date_col] # NaT}

\* C13: on each date basis the counts of the time series, summed over all
\* months and the six statuses, are the number of records whose date of that
\* basis is not null; total_records counts every record.
C13_SeriesCountsDatedRecords ==
    \A c \in Computed :
        /\ SeriesTotal(c.b.monthly_count_by_status_payment)
               = Cardinality(Dated(c.rows, "payment_date"))
        /\ SeriesTotal(c.b.monthly_count_by_status_cb)
               = Cardinality(Dated(c.rows, "chargeback_received_date"))
        /\ c.b.total_records = Len(c.rows)

\* C13 witness: two records, one without payment date, both with a
\* dispute-received date.
C13_Witness ==
    /\ pc = "aggregated"
    /\ all_metrics.total_records = 2
    /\ SeriesTotal(all_metrics.monthly_count_by_status_payment) = 1
    /\ SeriesTotal(all_metrics.monthly_count_by_status_cb) = 2

MonthBefore(a, b) == a[1] < b[1] \/ (a[1] = b[1] /\ a[2] < b[2])

MonthLabelsOk(rows, date_col, labels) ==
    /\ \A i, j \in DOMAIN labels : i < j => MonthBefore(labels[i], labels[j])
    /\ Range(labels) = {<<rows[j][date_col].year, rows[j][date_col].month>> :
                           j \in Dated(rows, date_col)}

\* C14: on each date basis the month labels are exactly the year-months in
\* which at least one record has that date, each listed once, in strictly
\* increasing chronological order.
C14_MonthLabelsSortedAndExact ==
    \A c \in Computed :
        /\ MonthLabelsOk(c.rows, "payment_date", c.b.month_labels_payment)
        /\ MonthLabelsOk(c.rows, "chargeback_received_date", c.b.month_labels_cb)

\* C14 witness: payments in December 2023 and January 2024, given in the
\* frame latest first, and two disputes received in the same month.
C14_Witness ==
    /\ pc = "aggregated"
    /\ Len(df) = 2
    /\ df[1].payment_date.year = 2024
    /\ df[2].payment_date.year = 2023
    /\ all_metrics.month_labels_payment = <<<<2023, 12>>, <<2024, 1>>>>
    /\ all_metrics.month_labels_cb = <<<<2024, 1>>>>

MonthRateOk(rows, date_col, labels, success) ==
    \A i \in DOMAIN labels :
        LET here == InMonth(rows, date_col, labels[i])
            won  == Cardinality({j \in here : rows[j].status = "Won"})
            lost == Cardinality({j \in here : rows[j].status = "Accepted"})
            gap  == success[i] * (won + lost) - 1000 * won
        IN  IF won + lost = 0 THEN success[i] = 0
            ELSE 2 * (IF gap < 0 THEN -gap ELSE gap) <= won + lost

\* C15: on each date basis the success rate of a month is
\* won / (won + lost) * 100 over the records of that month, rounded to one
\* decimal (the nearest tenth), and 0 when the month has no Won and no
\* Accepted record.
C15_MonthlySuccessRate ==
    \A c \in Computed :
        /\ MonthRateOk(c.rows, "payment_date", c.b.month_labels_payment,
                       c.b.monthly_success_payment)
        /\ MonthRateOk(c.rows, "chargeback_received_date", c.b.month_labels_cb,
                       c.b.monthly_success_cb)

\* C15 witness: a month of two Won records and one Accepted record, rate
\* 66.7.
C15_Witness ==
    /\ pc = "aggregated"
    /\ all_metrics.monthly_count_by_status_payment["Won"] = <<2>>
    /\ all_metrics.monthly_count_by_status_payment["Accepted"] = <<1>>
    /\ all_metrics.monthly_success_payment = <<667>>


(***************************************************************************)
(* Rankings                                                                *)
(***************************************************************************)
Named(rows, key, name) == {j \in DOMAIN rows : rows[j][key] = name}

NamesOf(rows, key) == {rows[j][key] : j \in DOMAIN rows} \ {NULL}

EntriesOk(list, rows, key) ==
    /\ \A i, j \in DOMAIN list : list[i].name = list[j].name => i = j
    /\ \A i \in DOMAIN list :
        /\ list[i].name \in NamesOf(rows, key)
        /\ list[i].count = Cardinality(Named(rows, key, list[i].name))
        /\ list[i].total = SumOver(Named(rows, key, list[i].name),
                                   [j \in DOMAIN rows |-> rows[j].amount])

NoneLeftOutIsLarger(list, rows, key) ==
    \A n \in NamesOf(rows, key) \ {list[i].name : i \in DOMAIN list} :
        \A i \in DOMAIN list :
            Cardinality(Named(rows, key, n)) <= list[i].count

\* C16: each entry of the operator ranking and of the bank ranking carries a
\* name of the collection, the number of records with that name and the sum
\* of their amounts; no name that is left out of a ranking has a count
\* strictly greater than the count of an entry of it.
C16_RankingEntries ==
    \A c \in Computed :
        /\ EntriesOk(c.b.top_operators, c.rows, "operator")
        /\ EntriesOk(c.b.top_banks_total, c.rows, "bank")
        /\ NoneLeftOutIsLarger(c.b.top_operators, c.rows, "operator")
        /\ NoneLeftOutIsLarger(c.b.top_banks_total, c.rows, "bank")

\* C16 witness: eleven operators, one of them with two records; the ranking
\* leaves an operator out and starts with the one of two records.
C16_Witness ==
    /\ pc = "aggregated"
    /\ Cardinality(NamesOf(df, "operator")) = 11
    /\ Len(all_metrics.top_operators) = 10
    /\ all_metrics.top_operators[1].count = 2
    /\ all_metrics.top_operators[1].total > all_metrics.top_operators[2].total
    /\ all_metrics.top_operators[10].count = 1

WonOnly(rows) == {j \in DOMAIN rows : rows[j].status = "Won"}

WonEntriesOk(list, rows, key) ==
    /\ \A i, j \in DOMAIN list : list[i].name = list[j].name => i = j
    /\ \A i \in DOMAIN list :
        LET won == Named(rows, key, list[i].name) \cap WonOnly(rows)
        IN  /\ won # {}
            /\ list[i].count = Cardinality(won)
            /\ list[i].total = SumOver(won, [j \in DOMAIN rows |-> rows[j].amount])
            /\ list[i].count <= Cardinality(Named(rows, key, list[i].name))

CountSum(list) == SumSeq([i \in DOMAIN list |-> list[i].count])

\* C17: the won-only rankings are computed from the Won records only: the
\* count of an entry is the number of Won records with that name, hence at
\* most the count of the name over all records, and the counts of a won-only
\* ranking add up to at most won_count.
C17_WonRankings ==
    \A c \in Computed :
        /\ WonEntriesOk(c.b.top_operators_won, c.rows, "operator")
        /\ WonEntriesOk(c.b.top_banks_won, c.rows, "bank")
        /\ CountSum(c.b.top_operators_won) <= c.b.won_count
        /\ CountSum(c.b.top_banks_won) <= c.b.won_count

\* C17 witness: an operator with a Won record and a record that is not Won,
\* ranked with count 1 in the won-only ranking and count 2 in the ranking of
\* all records.
C17_Witness ==
    /\ pc = "aggregated"
    /\ \E i \in DOMAIN all_metrics.top_operators_won :
        \E j \in DOMAIN all_metrics.top_operators :
            /\ all_metrics.top_operators_won[i].name
                   = all_metrics.top_operators[j].name
            /\ all_metrics.top_operators_won[i].count = 1
            /\ all_metrics.top_operators[j].count = 2

\* C17, second case reached: a Won record without operator, so that the
\* counts of the won-only operator ranking add up to less than won_count.
C17_WonWithoutOperator ==
    /\ pc = "aggregated"
    /\ all_metrics.won_count = 2
    /\ CountSum(all_metrics.top_operators_won) = 1


(***************************************************************************)
(* The two bundles of process_data                                         *)
(***************************************************************************)
\* C18: process_data aggregates twice, the classified collection and exactly
\* its records with is_fought = 1: the fought bundle's total_records is the
\* all bundle's fought_count, its fought_count is its own total_records and
\* its count of status N/A (non-fought) is 0.
C18_FoughtBundle ==
    pc = "aggregated" =>
        /\ all_metrics = Aggregate(df)
        /\ \A j \in DOMAIN fought_df : fought_df[j].is_fought = 1
        /\ Len(fought_df) = Cardinality({j \in DOMAIN df : df[j].is_fought = 1})
        /\ fought_metrics = Aggregate(fought_df)
        /\ fought_metrics.total_records = all_metrics.fought_count
        /\ fought_metrics.fought_count = fought_metrics.total_records
        /\ fought_metrics.status_summary["N/A (non-fought)"].count = 0

\* C18 witness: three records, two of them fought and one of these without
\* raw status, the third not fought but with a raw status.
C18_Witness ==
    /\ pc = "aggregated"
    /\ all_metrics.total_records = 3
    /\ all_metrics.fought_count = 2
    /\ fought_metrics.total_records = 2
    /\ fought_metrics.status_summary["N/A (fought)"].count = 1
    /\ all_metrics.status_summary["N/A (non-fought)"].count = 0


(***************************************************************************)
(* The cases table and its filters                                         *)
(***************************************************************************)
\* C19: the display rows are exactly one row per record of the source
\* collection, in the order of that collection: row i shows the user id and
\* the amount of record i; an empty collection gives no row.
C19_OneRowPerRecord ==
    pc = "processed" =>
        /\ Len(casos_rows) = Len(db)
        /\ \A i \in DOMAIN casos_rows :
            /\ casos_rows[i].user_id = db[i].user_id
            /\ casos_rows[i].amount = db[i].amount
            /\ casos_rows[i].is_fought = (IF db[i].is_fought = 1 THEN "Sí" ELSE "No")
        /\ (db = <<>> => casos_rows = <<>>)

\* C19 witness: three records, the second one not fought and without raw
\* status, shown as three rows in that order.
C19_Witness ==
    /\ pc = "processed"
    /\ Len(db) = 3
    /\ db[2].is_fought = 0
    /\ db[2].status = None
    /\ db[1].status = "Won"
    /\ Len(casos_rows) = 3
    /\ casos_rows[2].badge = NA
    /\ casos_rows[1].badge = "Ganado"

StrictlyAscending(list) ==
    \A i, j \in DOMAIN list : i < j => TextLess(list[i], list[j])

\* the values of a text field in the records, null and blank ones left out
Observed(rows, col) ==
    {rows[j][col] : j \in DOMAIN rows} \ ({NULL} \cup {t \in {rows[j][col] : j \in DOMAIN rows} : Blank(t)})

ObservedStatuses(rows) ==
    {StatusText(rows[j].status) : j \in {k \in DOMAIN rows : rows[k].status # None}}

\* C20 as stated: each of the four filter lists holds exactly the distinct
\* non-empty values observed in the records for its field, without
\* duplicates, in ascending order; a null or blank value contributes nothing.
C20_FiltersExactlyObserved ==
    pc = "processed" =>
        /\ StrictlyAscending(casos_filters.operators)
        /\ StrictlyAscending(casos_filters.types)
        /\ StrictlyAscending(casos_filters.banks)
        /\ StrictlyAscending(casos_filters.statuses)
        /\ Range(casos_filters.operators) = Observed(db, "operator")
        /\ Range(casos_filters.types) = Observed(db, "type")
        /\ Range(casos_filters.banks) = Observed(db, "bank")
        /\ Range(casos_filters.statuses) = ObservedStatuses(db)

\* c is t with its first character in upper case and the others in lower case
CapitalizedFormOf(c, t) ==
    /\ Len(c) = Len(t)
    /\ \A i \in DOMAIN t :
        c[i] = IF i = 1 THEN UpperChar(t[i]) ELSE LowerChar(t[i])

\* C20 as amended: the operator list and the bank list hold exactly the
\* distinct values observed that are neither null nor blank; the card type
\* list holds the capitalized forms of such values; the status list holds the
\* raw statuses observed and, when a record has no raw status, N/A; every
\* list is without duplicates and in ascending order, and all four are empty
\* for an empty collection.
C20_FiltersAsComputed ==
    pc = "processed" =>
        /\ StrictlyAscending(casos_filters.operators)
        /\ StrictlyAscending(casos_filters.types)
        /\ StrictlyAscending(casos_filters.banks)
        /\ StrictlyAscending(casos_filters.statuses)
        /\ Range(casos_filters.operators) = Observed(db, "operator")
        /\ Range(casos_filters.banks) = Observed(db, "bank")
        /\ \A c \in Range(casos_filters.types) :
            \E t \in Observed(db, "type") : CapitalizedFormOf(c, t)
        /\ \A t \in Observed(db, "type") :
            \E c \in Range(casos_filters.types) : CapitalizedFormOf(c, t)
        /\ Range(casos_filters.statuses) =
               ObservedStatuses(db)
               \cup (IF \E j \in DOMAIN db : db[j].status = None
                     THEN {StatusText(NA)} ELSE {})
        /\ (db = <<>> => casos_filters = NoFilters)

\* C20 witness: a record with null operator, type, bank and status, card
\* types given in lower case, and operators that sort by upper case first.
C20_Witness ==
    /\ pc = "processed"
    /\ \E j \in DOMAIN db : db[j].operator = NULL /\ db[j].status = None
    /\ casos_filters.operators = <<<<"B">>, <<"b">>>>
    /\ casos_filters.types = <<<<"A","m","e","x">>, <<"V","i","s","a">>>>
    /\ casos_filters.banks = <<<<"a">>, <<"a","b">>>>
    /\ Len(casos_filters.statuses) = 3
    /\ casos_filters.statuses[3] = StatusText(NA)


(***************************************************************************)
(* The aggregation on empty collections and on null values                 *)
(***************************************************************************)
BundleKeys ==
    {"total_records", "total_amount", "fought_amount", "recovered_amount",
     "lost_amount", "fought_count", "lost_count", "won_count", "success_rate",
     "status_summary",
     "month_labels_payment", "monthly_by_status_payment",
     "monthly_count_by_status_payment", "monthly_success_payment",
     "month_labels_cb", "monthly_by_status_cb",
     "monthly_count_by_status_cb", "monthly_success_cb",
     "top_operators", "top_operators_won", "top_banks_total", "top_banks_won",
     "status_donut_labels", "status_donut_values", "status_donut_colors",
     "type_donut_labels", "type_donut_values", "type_donut_colors",
     "country_donut_labels", "country_donut_values", "country_donut_colors"}

Desconocido == <<"D","E","S","C","O","N","O","C","I","D","O">>

NoOutcomeMonthsAreZero(count_by_status, success) ==
    \A i \in DOMAIN success :
        count_by_status["Won"][i] + count_by_status["Accepted"][i] = 0
            => success[i] = 0

\* C21: for every record collection, the empty one and those with null
\* operator, bank, type, country, status or dates included, the aggregation
\* gives a bundle with all its fields; a rate whose denominator is zero is 0;
\* a null type is counted as Otro, a null country as DESCONOCIDO, a null
\* status in one of the two N/A buckets.
C21_CompleteBundle ==
    \A c \in Computed :
        /\ DOMAIN c.b = BundleKeys
        /\ DOMAIN c.b.status_summary = StatusKeys
        /\ (c.b.won_count + c.b.lost_count = 0 => c.b.success_rate = 0)
        /\ NoOutcomeMonthsAreZero(c.b.monthly_count_by_status_payment,
                                  c.b.monthly_success_payment)
        /\ NoOutcomeMonthsAreZero(c.b.monthly_count_by_status_cb,
                                  c.b.monthly_success_cb)
        /\ TypeValue(c.b, "Otro")
               >= Cardinality({j \in DOMAIN c.rows : c.rows[j].type = NULL})
        /\ SumSeq(c.b.type_donut_values) = Len(c.rows)
        /\ (\E j \in DOMAIN c.rows : c.rows[j].country = NULL) =>
               \E i \in DOMAIN c.b.country_donut_labels :
                   /\ c.b.country_donut_labels[i] = Desconocido
                   /\ c.b.country_donut_values[i] =
                          Cardinality({j \in DOMAIN c.rows : c.rows[j].country = NULL})
        /\ c.b.status_summary["N/A (fought)"].count
             + c.b.status_summary["N/A (non-fought)"].count
               = Cardinality({j \in DOMAIN c.rows : c.rows[j].status = None})

\* C21 witness: three records that between them have a null country, type,
\* operator, bank, payment date and status, and no Won or Accepted outcome in
\* the one month of the dispute-received series.
C21_Witness ==
    /\ pc = "aggregated"
    /\ Len(df) = 3
    /\ \E j \in DOMAIN df : df[j].country = NULL /\ df[j].payment_date = NaT
    /\ \E j \in DOMAIN df : df[j].type = NULL /\ df[j].bank = NULL
    /\ \E j \in DOMAIN df : df[j].operator = NULL /\ df[j].status = None
    /\ all_metrics.success_rate = 0
    /\ TypeValue(all_metrics, "Otro") = 1
    /\ all_metrics.top_operators_won = <<>>

\* C21, the empty collection: a bundle with all its fields, counts 0 and
\* empty lists.
C21_EmptyCollection ==
    /\ pc = "aggregated"
    /\ db = <<>>
    /\ DOMAIN all_metrics = BundleKeys
    /\ all_metrics.total_records = 0
    /\ all_metrics.success_rate = 0
    /\ all_metrics.month_labels_payment = <<>>
    /\ all_metrics.top_operators = <<>>
    /\ all_metrics.country_donut_labels = <<>>


(***************************************************************************)
(* The runs of main                                                        *)
(***************************************************************************)
\* C22: when the record source fails (no connection, or the query raises),
\* the exception ends main: the run stays failed, nothing is classified or
\* aggregated, no page is generated, no file written, no git command run.
C22_FetchFailureIsFatal ==
    error # NoError =>
        /\ pc = "failed"
        /\ error \in FetchErrors
        /\ df = <<>>
        /\ all_metrics = NoMetrics
        /\ fought_metrics = NoMetrics
        /\ casos_rows = <<>>
        /\ html = <<>>
        /\ out_file = <<>>
        /\ git_log = <<>>

\* C22 witness: the query of a non-empty source failed, and time went on
\* after the failure.
C22_Witness ==
    /\ pc = "failed"
    /\ error = "DatabaseError"
    /\ db # <<>>
    /\ now = MaxTick

\* the number of steps of main that are finished
Stage(at) ==
    CASE at \in {"fetch", "failed"} -> 0
      [] at \in {"classify", "aggregate_all", "aggregate_fought", "aggregated"} -> 1
      [] at = "processed" -> 2
      [] at = "generated" -> 3
      [] at \in {"written", "git_status", "git_add", "git_commit", "git_push"} -> 4
      [] at = "done" -> 5

StepInOrder ==
    /\ Stage(pc') \in {Stage(pc), Stage(pc) + 1}
    /\ (df' # df => pc \in {"fetch", "classify"})
    /\ (casos_rows' # casos_rows => pc = "aggregated")
    /\ (html' # html => pc = "processed")
    /\ (out_file' # out_file => pc = "generated" /\ out_file' = html)
    /\ (git_log' # git_log => Stage(pc) = 4 /\ html # <<>> /\ out_file = html)

\* C23: in every run of main the steps fetch, process_data, generate_html,
\* writing the file and push_to_github happen in that order, each at most
\* once and each after the one before it is finished; a git command runs only
\* when the output file holds the whole page.
C23_StepsInOrder == [][StepInOrder]_vars

\* C23 witness: a run that went through all five steps, the last one with its
\* five git commands.
C23_Witness ==
    /\ pc = "done"
    /\ Len(git_log) = 5
    /\ html # <<>>
    /\ out_file = html
    /\ casos_rows # <<>>

GitOrder == <<"version", "status", "add", "commit", "push">>

InGitOrder ==
    /\ Len(git_log) <= Len(GitOrder)
    /\ \A i \in DOMAIN git_log : git_log[i].cmd = GitOrder[i]

\* C29 as stated: the git commands run in the order version, status, add,
\* commit, push, each only after the one before it succeeded.
C29_EachAfterSuccess ==
    /\ InGitOrder
    /\ \A i \in DOMAIN git_log : i > 1 => git_log[i - 1].outcome = "ok"

\* C29, the part that holds: the order; nothing runs after a failed version
\* check, add, commit or push, or after a status that reports "not a git
\* repository"; in particular no push after a commit that failed or had
\* nothing to commit.
C29_OrderAndStops ==
    /\ InGitOrder
    /\ \A i \in DOMAIN git_log :
        i > 1 => \/ git_log[i - 1].outcome = "ok"
                 \/ git_log[i - 1].cmd = "status" /\ git_log[i - 1].outcome = "nonzero"

\* C29, reached: a commit with nothing to commit, after which no push ran
C29_NothingToCommit ==
    /\ pc = "done"
    /\ Len(git_log) = 4
    /\ git_log[4].outcome = "nothing to commit"

GitFailures ==
    {"FileNotFoundError", "CalledProcessError", "nothing to commit",
     "not a git repository"}

\* C30: no failure of a git command leaves push_to_github as an exception:
\* after a missing executable or a command that exited non-zero, main has
\* ended normally and the output file still holds the page.
C30_GitFailuresAreCaught ==
    git_log # <<>> =>
        /\ error = NoError
        /\ pc # "failed"
        /\ html # <<>>
        /\ out_file = html
        /\ git_log[Len(git_log)].outcome \in GitFailures => pc = "done"

\* C30 witness: git push exited non-zero, main is done and the file is there.
C30_Witness ==
    /\ pc = "done"
    /\ Len(git_log) = 5
    /\ git_log[5].outcome = "CalledProcessError"
    /\ error = NoError
    /\ out_file = html
    /\ html # <<>>


(***************************************************************************)
(* The aggregator and the record collection                                *)
(***************************************************************************)

\* C24: the aggregator leaves the record collection as it received it: after
\* either aggregation df is still the classified form of the fetched records,
\* and the fought bundle is computed from the fought records of that same
\* collection.
C24_RecordsUnchanged ==
    pc \in {"aggregate_fought", "aggregated", "processed"} =>
        /\ df = Classify(db)
        /\ pc # "aggregate_fought" =>
              /\ fought_df = SelectSeq(Classify(db), LAMBDA r : r.is_fought = 1)
              /\ fought_metrics.total_records = Len(fought_df)

\* C24 witness: both aggregations done on a collection that holds fought
\* and non-fought records.
C24_Witness ==
    /\ pc = "aggregated"
    /\ Len(df) = 3
    /\ Len(fought_df) = 2
    /\ all_metrics.total_records = 3
    /\ fought_metrics.total_records = 2


(***************************************************************************)
(* Scalar totals against the status summary                                *)
(***************************************************************************)

\* C28: within one bundle the scalar totals agree with the status summary:
\* the Won entry carries won_count and recovered_amount, the Accepted entry
\* lost_count and lost_amount, and the status donut values are the six
\* counts of status_summary in the order Won, Accepted, Documents submitted,
\* Active, N/A (fought), N/A (non-fought).
C28_TotalsAgreeWithSummary ==
    \A c \in Computed :
        /\ c.b.status_summary["Won"].count = c.b.won_count
        /\ c.b.status_summary["Won"].amount = c.b.recovered_amount
        /\ c.b.status_summary["Accepted"].count = c.b.lost_count
        /\ c.b.status_summary["Accepted"].amount = c.b.lost_amount
        /\ c.b.status_donut_values =
              <<c.b.status_summary["Won"].count,
                c.b.status_summary["Accepted"].count,
                c.b.status_summary["Documents submitted"].count,
                c.b.status_summary["Active"].count,
                c.b.status_summary["N/A (fought)"].count,
                c.b.status_summary["N/A (non-fought)"].count>>

\* C28 witness: a bundle over a won record that was not fought, a lost
\* record and a record without status.
C28_Witness ==
    /\ pc = "aggregated"
    /\ \E i \in DOMAIN df : df[i].status = "Won" /\ df[i].is_fought = 0
    /\ all_metrics.won_count = 1
    /\ all_metrics.lost_count = 1
    /\ all_metrics.recovered_amount > 0
    /\ all_metrics.lost_amount > 0
    /\ all_metrics.status_donut_values = <<1, 1, 0, 0, 0, 1>>


(***************************************************************************)
(* The cases table in the browser                                          *)
(***************************************************************************)

\* the values of a column do not decrease (asc) or increase (desc) along rows
InSortOrder(rows, trs, colIdx, dir) ==
    \A j \in 1..(Len(rows) - 1) :
        LET a == SortValue(trs[rows[j]], colIdx)
            b == SortValue(trs[rows[j + 1]], colIdx)
        IN  IF dir = "asc" THEN a <= b ELSE a >= b

\* C25: applyFilters preserves the sort order that is active: while a header
\* carries asc or desc, the rows of the table are in that order of that
\* column, also after a change of the filters.
C25_SortOrderPreserved ==
    (loaded /\ sortable # NoSort) =>
        InSortOrder(currentRows, allRows, sortable.col, sortable.dir)

\* C25: the state after a filter change under a descending sort by amount
C25_FilteredOutOfOrder ==
    /\ loaded
    /\ sortable = [col |-> 1, dir |-> "desc"]
    /\ filters.fought = "Sí"
    /\ Len(currentRows) = 2
    /\ allRows[currentRows[1]].amount < allRows[currentRows[2]].amount

\* the records whose status, as the table shows it, has the given text
RecordsWithStatus(text) ==
    {i \in DOMAIN df : StatusText(DisplayRow(df[i]).status) = text}

\* C26: with one of the offered values selected in the status filter and
\* every other filter empty, the table holds exactly the rows of the records
\* with that status, at least one.
C26_StatusFilterSelectsItsRecords ==
    (loaded /\ filters.status # <<>>
            /\ [filters EXCEPT !.status = <<>>] = NoInput) =>
        /\ Range(currentRows) = RecordsWithStatus(filters.status)
        /\ currentRows # <<>>

\* C26: Won selected on a table with a won record: no row is left
C26_WonSelectsNothing ==
    /\ loaded
    /\ filters = [NoInput EXCEPT !.status = <<"W","o","n">>]
    /\ \E i \in DOMAIN df : df[i].status = "Won"
    /\ currentRows = <<>>

\* after every renderTable the page is in range and the rows on display are
\* the rows of that page, at most 50
C27_PageInRange ==
    loaded =>
        LET n     == Len(currentRows)
            pages == IF n = 0 THEN 1 ELSE (n + 49) \div 50
            first == (currentPage - 1) * 50
            last  == IF currentPage * 50 < n THEN currentPage * 50 ELSE n
        IN  /\ 1 <= currentPage
            /\ currentPage <= pages
            /\ Len(shown) <= 50
            /\ shown = [j \in 1..(last - first) |-> currentRows[first + j]]

\* every change of the filters and every click on a header leads to page 1
C27_FirstPageAfterChange ==
    [][(filters' # filters \/ sortable' # sortable) => currentPage' = 1]_vars

\* C27: after any sequence of filter changes, resets, sort clicks and clicks
\* on enabled page buttons, 1 <= currentPage <= max(1, ceil(n / 50)) for the
\* n rows of currentRows, the rows on display are
\* currentRows[(p-1)*50 .. min(p*50, n)), at most 50, and every filter change
\* and sort click sets currentPage to 1.
C27_Pagination == []C27_PageInRange /\ C27_FirstPageAfterChange

\* C27 witness: the last page of a sorted table of more than 150 rows, with
\* its single row on display.
C27_Witness ==
    /\ loaded
    /\ sortable.dir = "desc"
    /\ Len(currentRows) > 150
    /\ currentPage >= 4
    /\ Len(shown) = 1

====
